---- MODULE Spec2Model ----
(***************************************************************************)
(* Block-chain core of blockchain/chain.go: the block index, the best      *)
(* chain view, connectBlock / disconnectBlock, getReorganizeNodes,         *)
(* reorganizeChain, forceHeadReorganization and connectBestChain, run by   *)
(* caller threads that take chainLock and release it around notifications. *)
(*                                                                         *)
(* A block is identified by a small integer standing for its hash.  The    *)
(* UTXO set is represented by the set of blocks whose transactions are     *)
(* applied to it, the spend journal by the set of blocks that have an      *)
(* entry, the stake database by the hash of its best node.                 *)
(***************************************************************************)
EXTENDS Integers, Sequences, FiniteSets, TLC

\* ---------------------------------------------------------------- bounds
\* blocks, beyond genesis, that callers submit in a run of Spec
MaxBlocks == 3
\* blocks, beyond genesis, that callers submit in a run of SpecConc
MaxBlocksConc == 2
\* proof of work carried by one block: 1..MaxWork
MaxWork == 2
\* store failures (flush, update, fetch) injected in one run
MaxFails == 1
\* calls that carry BFFastAdd in one run
MaxFastAdd == 1
\* chainParams.StakeEnabledHeight of the modelled network
StakeEnabledHeight == 2
\* the height of the longest chain in the runs that fill the block cache
MaxCacheHeight == 14
\* blocks not yet seen that may be added to the orphan pool
MaxNewOrphans == 2
\* seconds the clock may advance by single steps
MaxTicks == 1
\* calls of addOrphanBlock
MaxOrphanAdds == 3
\* the most entries a peer asks locateInventory for: 1..MaxEntries
MaxEntries == 2
\* blocks that callers submit while the queries run
MaxQueryBlocks == 1
\* blocks that callers submit between calls of getReorganizeNodes
MaxNodeBlocks == 2
\* start and end heights asked of HeightRange: -1..MaxHeightArg
MaxHeightArg == 4
\* blocks that callers submit beside the calls of forceHeadReorganization
MaxForceBlocks == 1
\* the height of the longest chain in the runs that ask for any inventory
MaxLocateHeight == 4
\* calls of addOrphanBlock in the runs that ask for the root of an orphan
MaxRootAdds == 4
\* blocks connected above the height a run of the pruner starts at
MaxPruneBlocks == 2

\* ------------------------------------------------------------- constants
mainchainBlockCacheSize == 12
\* the most orphan blocks the pool is to hold
maxOrphanBlocks == 500
\* time.Hour, the life of an orphan, in seconds
Hour == 3600
\* the most recent nodes that stay in memory
minMemoryNodes == 2880
\* the most recent nodes whose stake data stays in memory
minMemoryStakeNodes == 288

Threads == {1, 2}
Genesis == 0
\* the nil node; also stands for the zero hash
NoNode == -1

statusDataStored == "HaveData"
statusValid == "Valid"
statusValidateFailed == "ValidateFailed"
statusInvalidAncestor == "InvalidAncestor"

\* what the validator's checkConnectBlock says of a block in the context of
\* its own ancestors: a pure function of the block
Verdicts == {"ok", "rule"}

\* what the three checks of forceHeadReorganization say of a block: as above,
\* or a rule violation found by checkBlockSanity or by checkBlockContext
ForceVerdicts == Verdicts \cup {"sanity", "context"}

NTBlockConnected == "BlockConnected"
NTBlockDisconnected == "BlockDisconnected"
NTReorganization == "Reorganization"
NTChainReorgStarted == "ChainReorgStarted"
NTChainReorgDone == "ChainReorgDone"
NTSpentAndMissedTickets == "SpentAndMissedTickets"
NTNewTickets == "NewTickets"

\* places where the durable store can fail
FailPoints == {"warn", "flush", "update", "fetch", "stakediff"}

VARIABLES
    b,          \* the BlockChain struct: index, bestChain, stateSnapshot, cache
    db,         \* the durable store
    chainLock,  \* 0 when free, else the thread that holds it
    pc,         \* where each caller thread is
    loc,        \* each thread's call: arguments, locals, what it did so far
    panicked,   \* a fatal assertion (panicf) fired
    budget,     \* blocks that may still be submitted
    fails,      \* store failures that may still be injected
    fastAdds,   \* BFFastAdd calls that may still be made
    forced,     \* a ForceHeadReorganization call has moved the tip
    hist,       \* history: the best state before the last block connected
    now         \* the clock (time.Now), in seconds

vars == <<b, db, chainLock, pc, loc, panicked, budget, fails, fastAdds,
         forced, hist, now>>

\* --------------------------------------------------------------- helpers
RECURSIVE SeqToSet(_)
SeqToSet(s) == IF s = <<>> THEN {} ELSE {Head(s)} \cup SeqToSet(Tail(s))

\* number of transactions the block adds (countNumberOfTransactions): a
\* property of the block's content, fixed per block
countNumberOfTransactions(n) == 1 + (n % 2)

KnownValid(st) == statusValid \in st

KnownInvalid(st) == st \cap {statusValidateFailed, statusInvalidAncestor} # {}

\* chainView
Tip(chain) == chain[Len(chain)]

Contains(nd, chain, n) ==
    /\ n # NoNode
    /\ nd[n].height + 1 <= Len(chain)
    /\ chain[nd[n].height + 1] = n

RECURSIVE FindFork(_, _, _)
FindFork(nd, chain, n) ==
    IF n = NoNode THEN NoNode
    ELSE IF Contains(nd, chain, n) THEN n
    ELSE FindFork(nd, chain, nd[n].parent)

RECURSIVE SetTip(_, _, _)
SetTip(nd, chain, n) ==
    IF n = NoNode THEN <<>>
    ELSE IF Contains(nd, chain, n) THEN SubSeq(chain, 1, nd[n].height + 1)
    ELSE Append(SetTip(nd, chain, nd[n].parent), n)

\* the nodes from n down to (not including) stop, nearest to n first
RECURSIVE WalkBack(_, _, _)
WalkBack(nd, n, stop) ==
    IF n = NoNode \/ n = stop THEN <<>>
    ELSE <<n>> \o WalkBack(nd, nd[n].parent, stop)

RECURSIVE Reverse(_)
Reverse(s) == IF s = <<>> THEN <<>> ELSE Append(Reverse(Tail(s)), Head(s))

NodeByHeight(chain, height) ==
    IF height < 0 \/ height >= Len(chain) THEN NoNode ELSE chain[height + 1]

\* chainView.Next: the successor of the node in the view, nil past the tip
chainViewNext(nd, chain, n) ==
    IF n = NoNode \/ ~Contains(nd, chain, n) THEN NoNode
    ELSE NodeByHeight(chain, nd[n].height + 1)

\* chainView.Genesis
chainViewGenesis(chain) == NodeByHeight(chain, 0)

\* the ancestor of n at the given height
RECURSIVE Ancestor(_, _, _)
Ancestor(nd, n, height) ==
    IF n = NoNode \/ nd[n].height < height THEN NoNode
    ELSE IF nd[n].height = height THEN n
    ELSE Ancestor(nd, nd[n].parent, height)

\* the locator from node n on, len entries being in it already: back by
\* step, which doubles once the locator has more than ten entries
RECURSIVE blockLocatorFrom(_, _, _, _, _)
blockLocatorFrom(nd, chain, n, step, len) ==
    IF n = NoNode THEN <<>>
    ELSE IF nd[n].height = 0 THEN <<n>>
    ELSE
    LET below == nd[n].height - step
        height == IF below < 0 THEN 0 ELSE below
        back == IF Contains(nd, chain, n) THEN NodeByHeight(chain, height)
                ELSE Ancestor(nd, n, height)
    IN  <<n>> \o blockLocatorFrom(nd, chain, back,
                                  IF len + 1 > 10 THEN 2 * step ELSE step,
                                  len + 1)

\* chainView.BlockLocator: of the tip when the node is nil
BlockLocator(nd, chain, node) ==
    blockLocatorFrom(nd, chain, IF node = NoNode THEN Tip(chain) ELSE node,
                     1, 0)

\* ------------------------------------------------------------ best state
newBestState(nd, n, numTxns, totalTxns) ==
    [Hash |-> n,
     PrevHash |-> IF nd[n].parent # NoNode THEN nd[n].parent ELSE NoNode,
     Height |-> nd[n].height,
     NumTxns |-> numTxns,
     TotalTxns |-> totalTxns]

\* ----------------------------------------------------------- block index
\* A step works on a record r = [b, db, l] (the chain, the store and the
\* calling thread's locals) and returns it changed.

SetStatusFlags(r, n, flag) ==
    [r EXCEPT !.b.status[n] = @ \cup {flag},
              !.b.modified = @ \cup {n}]

\* index.flush(): writes every modified entry, then clears the set
IndexFlush(r) ==
    IF r.b.modified = {} THEN r
    ELSE [r EXCEPT !.db.index = [n \in DOMAIN r.b.nodes |->
                                    IF n \in r.b.modified THEN r.b.status[n]
                                    ELSE IF n \in DOMAIN @ THEN @[n] ELSE {}],
                   !.b.modified = {},
                   !.l.wr = @ \cup {"index"}]

\* whether the store failure F names at point p happens here
Fails(r, F, p) == p \in F

Used(r, p) == [r EXCEPT !.l.used = @ \cup {p}]

\* flushBlockIndex: the error is returned in l.err
flushBlockIndex(r, F, p) ==
    IF r.b.modified # {} /\ Fails(r, F, p)
    THEN [Used(r, p) EXCEPT !.l.err = "StoreError"]
    ELSE IndexFlush(r)

flushBlockIndexWarnOnly(r, F) ==
    LET e == r.l.err
    IN  [flushBlockIndex(r, F, "warn") EXCEPT !.l.err = e]

\* ------------------------------------------------------------- UTXO view
NewUtxoViewpoint == [add |-> {}, del |-> {}]

connectTransactions(view, n) ==
    [add |-> view.add \cup {n}, del |-> view.del \ {n}]

disconnectTransactions(view, n) ==
    [add |-> view.add \ {n}, del |-> view.del \cup {n}]

dbPutUtxoView(utxo, view) == (utxo \ view.del) \cup view.add

\* view.commit(): the modifications are in the store, nothing is pending
commit(view) == NewUtxoViewpoint

\* ------------------------------------------------------ main chain cache
\* a push that keeps the block that is mainchainBlockCacheSize below the new
\* one
pushMainChainBlockCacheKeeping(r, n) ==
    LET nd == r.b.nodes
        curHeight == nd[n].height
    IN  [r EXCEPT !.b.mainchainBlockCache =
            {m \in @ \cup {n} :
                ~(nd[m].height < curHeight - mainchainBlockCacheSize)}]

pushMainChainBlockCache(r, n) ==
    LET nd == r.b.nodes
        curHeight == nd[n].height
    IN  [r EXCEPT !.b.mainchainBlockCache =
            {m \in @ \cup {n} :
                ~(nd[m].height <= curHeight - mainchainBlockCacheSize)}]

dropMainChainBlockCache(r, n) ==
    [r EXCEPT !.b.mainchainBlockCache = @ \ {n}]

\* ------------------------------------------------------------ orphan pool
\* An orphanBlock is [hash, expiration]: the block, named by its hash, and
\* the time it expires. bc is the BlockChain struct.
NoOrphan == [hash |-> NoNode, expiration |-> 0]

\* Header.PrevBlock of the block: a hash that is not in the index
PrevBlock(hash) == 0 - (2 + (hash \div 2))

RECURSIVE WithoutHashes(_, _)
WithoutHashes(orphans, hashes) ==
    IF orphans = <<>> THEN <<>>
    ELSE IF Head(orphans).hash \in hashes
    THEN WithoutHashes(Tail(orphans), hashes)
    ELSE <<Head(orphans)>> \o WithoutHashes(Tail(orphans), hashes)

\* removeOrphanBlock of each of the orphans named by hashes: the entries of
\* b.orphans are deleted, the orphans are taken out of the lists of
\* b.prevOrphans, and a list that becomes empty is deleted
removeOrphanBlocks(bc, hashes) ==
    LET kept == [p \in DOMAIN bc.prevOrphans |->
                    WithoutHashes(bc.prevOrphans[p], hashes)]
    IN  [bc EXCEPT
            !.orphans = [h \in DOMAIN bc.orphans \ hashes |-> bc.orphans[h]],
            !.prevOrphans = [p \in {q \in DOMAIN kept : Len(kept[q]) # 0} |->
                                kept[p]]]

\* a removeOrphanBlock that takes the first record of the orphan out of the
\* list of its parent and leaves the later ones
removeOrphanBlockFirstOnly(bc, orphan) ==
    LET orphanHash == orphan.hash
        prevHash == PrevBlock(orphanHash)
        list == IF prevHash \in DOMAIN bc.prevOrphans
                THEN bc.prevOrphans[prevHash] ELSE <<>>
        at == {k \in 1..Len(list) : list[k].hash = orphanHash}
        first == IF at = {} THEN 0
                 ELSE CHOOSE k \in at : \A j \in at : k <= j
        orphans == IF first = 0 THEN list
                   ELSE SubSeq(list, 1, first - 1)
                            \o SubSeq(list, first + 1, Len(list))
        buckets == (DOMAIN bc.prevOrphans \ {prevHash})
                       \cup (IF Len(orphans) = 0 THEN {} ELSE {prevHash})
    IN  [bc EXCEPT
            !.orphans = [h \in DOMAIN bc.orphans \ {orphanHash} |->
                            bc.orphans[h]],
            !.prevOrphans = [p \in buckets |->
                                IF p = prevHash THEN orphans
                                ELSE bc.prevOrphans[p]]]

\* removeOrphanBlock: the entry of the orphan's hash is deleted from
\* b.orphans, every record with that hash is taken out of the list of the
\* orphan's parent in b.prevOrphans, and the list is deleted if it is empty
removeOrphanBlock(bc, orphan) ==
    LET orphanHash == orphan.hash
        prevHash == PrevBlock(orphanHash)
        orphans == IF prevHash \in DOMAIN bc.prevOrphans
                   THEN WithoutHashes(bc.prevOrphans[prevHash], {orphanHash})
                   ELSE <<>>
        buckets == (DOMAIN bc.prevOrphans \ {prevHash})
                       \cup (IF Len(orphans) = 0 THEN {} ELSE {prevHash})
    IN  [bc EXCEPT
            !.orphans = [h \in DOMAIN bc.orphans \ {orphanHash} |->
                            bc.orphans[h]],
            !.prevOrphans = [p \in buckets |->
                                IF p = prevHash THEN orphans
                                ELSE bc.prevOrphans[p]]]

\* the orphans that time t finds expired
Expired(bc, t) == {h \in DOMAIN bc.orphans : t > bc.orphans[h].expiration}

\* what b.oldestOrphan may be after the loop of addOrphanBlock over
\* b.orphans at time t: the map is ranged over in an order that is not fixed,
\* and an orphan replaces b.oldestOrphan when it expires strictly before it
OldestAfterLoop(bc, t) ==
    LET live == {bc.orphans[h] : h \in DOMAIN bc.orphans \ Expired(bc, t)}
        before == {o \in live :
                     \/ bc.oldestOrphan = NoOrphan
                     \/ o.expiration < bc.oldestOrphan.expiration}
    IN  IF before = {} THEN {bc.oldestOrphan}
        ELSE {o \in before : \A q \in before : o.expiration <= q.expiration}

\* addOrphanBlock of the block named hash at time t, the loop leaving oldest
\* in b.oldestOrphan
addOrphanBlock(bc, hash, t, oldest) ==
    LET looped == [removeOrphanBlocks(bc, Expired(bc, t))
                     EXCEPT !.oldestOrphan = oldest]
        limited == IF Cardinality(DOMAIN looped.orphans) + 1 > maxOrphanBlocks
                   THEN [removeOrphanBlock(looped, looped.oldestOrphan)
                           EXCEPT !.oldestOrphan = NoOrphan]
                   ELSE looped
        expiration == t + Hour
        oBlock == [hash |-> hash, expiration |-> expiration]
        prevHash == PrevBlock(hash)
    IN  [limited EXCEPT
            !.orphans = [h \in DOMAIN limited.orphans \cup {hash} |->
                            IF h = hash THEN oBlock ELSE limited.orphans[h]],
            !.prevOrphans =
                [p \in DOMAIN limited.prevOrphans \cup {prevHash} |->
                    IF p # prevHash THEN limited.prevOrphans[p]
                    ELSE IF p \in DOMAIN limited.prevOrphans
                    THEN Append(limited.prevOrphans[p], oBlock)
                    ELSE <<oBlock>>]]

\* a GetOrphanRoot that returns the last hash it looked up
getOrphanRootStepLastSeen(bc, q) ==
    IF q.prevHash \notin DOMAIN bc.orphans
    THEN [q EXCEPT !.returned = TRUE, !.result = q.prevHash]
    ELSE [q EXCEPT !.orphanRoot = q.prevHash,
                   !.prevHash = PrevBlock(bc.orphans[q.prevHash].hash)]

\* one turn of the loop of GetOrphanRoot: it leaves the loop and returns
\* orphanRoot when prevHash is of no orphan, and else moves both up
getOrphanRootStep(bc, q) ==
    IF q.prevHash \notin DOMAIN bc.orphans
    THEN [q EXCEPT !.returned = TRUE, !.result = q.orphanRoot]
    ELSE [q EXCEPT !.orphanRoot = q.prevHash,
                   !.prevHash = PrevBlock(bc.orphans[q.prevHash].hash)]

\* ------------------------------------------------------------ stake data
\* The fields stakeNode, newTickets, ticketsVoted and ticketsRevoked of a
\* node hold the data of the node n (written <<n>>) or nil (written <<>>).
NoStake == <<>>

WithStake(node, n) ==
    [parent |-> node.parent, height |-> node.height,
     workSum |-> node.workSum, verdict |-> node.verdict,
     stakeNode |-> n, newTickets |-> n, ticketsVoted |-> n,
     ticketsRevoked |-> n]

\* the nodes met from n on by following parent pointers, n first: k of them,
\* or fewer when the nil parent of the genesis block is met before; the walk
\* is split in halves to keep the evaluation shallow
RECURSIVE ParentWalk(_, _, _)
ParentWalk(nd, n, k) ==
    IF k = 0 \/ n = NoNode THEN <<>>
    ELSE IF k = 1 THEN <<n>>
    ELSE
    LET half == k \div 2
        first == ParentWalk(nd, n, half)
    IN  IF Len(first) < half THEN first
        ELSE first \o ParentWalk(nd, nd[first[half]].parent, k - half)

\* a pruneStakeNodes that keeps the stake data of the tip and of its
\* minMemoryStakeNodes nearest ancestors
pruneStakeNodesKeepingOneMore(bc) ==
    LET nd == bc.nodes
        tip == Tip(bc.bestChain)
        walked == ParentWalk(nd, tip, minMemoryStakeNodes + 1)
        pruneToNode == IF Len(walked) = minMemoryStakeNodes + 1
                       THEN walked[minMemoryStakeNodes + 1] ELSE NoNode
    IN  IF pruneToNode = NoNode \/ nd[pruneToNode].parent = NoNode THEN bc
        ELSE
        LET list == ParentWalk(nd, nd[pruneToNode].parent,
                               Cardinality(DOMAIN nd))
            deleteNodes == {list[i] : i \in 1..Len(list)}
        IN  [bc EXCEPT !.nodes =
                [n \in DOMAIN nd |->
                    IF /\ n \in deleteNodes
                       /\ nd[n].height > nd[tip].height - minMemoryNodes
                    THEN WithStake(nd[n], NoStake)
                    ELSE nd[n]]]

\* pruneStakeNodes: pruneToNode is the tip moved back by
\* minMemoryStakeNodes - 1 parents; the parent of pruneToNode and all its
\* ancestors are listed, and the four fields of each listed node whose
\* height is above the tip's height less minMemoryNodes are set to nil
pruneStakeNodes(bc) ==
    LET nd == bc.nodes
        tip == Tip(bc.bestChain)
        walked == ParentWalk(nd, tip, minMemoryStakeNodes)
        pruneToNode == IF Len(walked) = minMemoryStakeNodes
                       THEN walked[minMemoryStakeNodes] ELSE NoNode
    IN  IF pruneToNode = NoNode \/ nd[pruneToNode].parent = NoNode THEN bc
        ELSE
        LET list == ParentWalk(nd, nd[pruneToNode].parent,
                               Cardinality(DOMAIN nd))
            deleteNodes == {list[i] : i \in 1..Len(list)}
        IN  [bc EXCEPT !.nodes =
                [n \in DOMAIN nd |->
                    IF /\ n \in deleteNodes
                       /\ nd[n].height > nd[tip].height - minMemoryNodes
                    THEN WithStake(nd[n], NoStake)
                    ELSE nd[n]]]

\* ---------------------------------------------------------- notifications
sendNotification(r, kind, x, y, locked) ==
    [r EXCEPT !.l.log = Append(@, [kind |-> kind, a |-> x, b |-> y,
                                   locked |-> locked])]

\* ------------------------------------------------- variants of the code
\* a connectBlock that moves the tip of the view before the store update
\* has succeeded
connectBlockCommitTipFirst(r, n, F) ==
    LET nd == r.b.nodes
        tip == Tip(r.b.bestChain)
    IN  IF nd[n].parent # tip
        THEN [r EXCEPT !.l.panic = TRUE]
        ELSE
        LET r1 == flushBlockIndex(r, F, "flush")
            numTxns == countNumberOfTransactions(n)
            state == newBestState(nd, n, numTxns,
                                  r.b.stateSnapshot.TotalTxns + numTxns)
            r2 == [r1 EXCEPT !.b.bestChain = SetTip(nd, @, n)]
        IN  IF r1.l.err # "nil" THEN r1
            ELSE IF Fails(r2, F, "update")
            THEN [Used(r2, "update") EXCEPT !.l.err = "StoreError"]
            ELSE [r2 EXCEPT
                    !.db.best = [state |-> state, workSum |-> nd[n].workSum],
                    !.db.utxo = dbPutUtxoView(@, r1.l.view),
                    !.db.journal = @ \cup {n},
                    !.db.stake = n,
                    !.l.wr = @ \cup {"best", "utxo", "journal", "stake"},
                    !.l.view = commit(@),
                    !.b.stateSnapshot = state,
                    !.l.cur = n]

\* ------------------------------------------------------------ connectBlock
\* connectBlock up to the point where it releases chainLock to notify
connectBlockCommit(r, n, F) ==
    LET nd == r.b.nodes
        tip == Tip(r.b.bestChain)
    IN  IF nd[n].parent # tip
        THEN [r EXCEPT !.l.panic = TRUE]
        ELSE
        LET r1 == flushBlockIndex(r, F, "flush")
            numTxns == countNumberOfTransactions(n)
            state == newBestState(nd, n, numTxns,
                                  r.b.stateSnapshot.TotalTxns + numTxns)
        IN  IF r1.l.err # "nil" THEN r1
            ELSE IF Fails(r1, F, "update")
            THEN [Used(r1, "update") EXCEPT !.l.err = "StoreError"]
            ELSE [r1 EXCEPT
                    !.db.best = [state |-> state, workSum |-> nd[n].workSum],
                    !.db.utxo = dbPutUtxoView(@, r1.l.view),
                    !.db.journal = @ \cup {n},
                    !.db.stake = n,
                    !.l.wr = @ \cup {"best", "utxo", "journal", "stake"},
                    !.l.view = commit(@),
                    !.b.bestChain = SetTip(nd, @, n),
                    !.b.stateSnapshot = state,
                    !.l.cur = n]

\* connectBlock after it took chainLock again
connectBlockFinish(r, n, F) ==
    LET nd == r.b.nodes
        r1 == IF nd[n].height >= StakeEnabledHeight
              THEN IF Fails(r, F, "stakediff")
                   THEN [Used(r, "stakediff") EXCEPT !.l.err = "StoreError"]
                   ELSE sendNotification(
                            sendNotification(r, NTSpentAndMissedTickets,
                                             n, NoNode, TRUE),
                            NTNewTickets, n, NoNode, TRUE)
              ELSE r
    IN  IF r1.l.err # "nil" THEN r1
        ELSE pushMainChainBlockCache(r1, n)

\* a disconnectBlock whose new best state describes the disconnected node
\* instead of its parent
disconnectBlockCommitStateOfNode(r, n, F) ==
    LET nd == r.b.nodes
        tip == Tip(r.b.bestChain)
    IN  IF n # tip
        THEN [r EXCEPT !.l.panic = TRUE]
        ELSE
        LET r1 == flushBlockIndex(r, F, "flush")
            prevNode == nd[n].parent
            numTxns == countNumberOfTransactions(n)
            state == newBestState(nd, n, numTxns,
                                  r.b.stateSnapshot.TotalTxns - numTxns)
        IN  IF r1.l.err # "nil" THEN r1
            ELSE IF Fails(r1, F, "update")
            THEN [Used(r1, "update") EXCEPT !.l.err = "StoreError"]
            ELSE [r1 EXCEPT
                    !.db.best = [state |-> state, workSum |-> nd[n].workSum],
                    !.db.utxo = dbPutUtxoView(@, r1.l.view),
                    !.db.journal = @ \ {n},
                    !.db.stake = prevNode,
                    !.l.wr = @ \cup {"best", "utxo", "journal", "stake"},
                    !.l.view = commit(@),
                    !.b.bestChain = SetTip(nd, @, prevNode),
                    !.b.stateSnapshot = state,
                    !.l.cur = n]

\* a disconnectBlock that moves the tip and the snapshot whether or not the
\* store update succeeded
disconnectBlockCommitUngated(r, n, F) ==
    LET nd == r.b.nodes
        tip == Tip(r.b.bestChain)
    IN  IF n # tip
        THEN [r EXCEPT !.l.panic = TRUE]
        ELSE
        LET r1 == flushBlockIndex(r, F, "flush")
            prevNode == nd[n].parent
            numTxns == countNumberOfTransactions(n)
            state == newBestState(nd, prevNode, numTxns,
                                  r.b.stateSnapshot.TotalTxns - numTxns)
        IN  IF r1.l.err # "nil" THEN r1
            ELSE IF Fails(r1, F, "update")
            THEN [Used(r1, "update") EXCEPT
                    !.l.err = "StoreError",
                    !.b.bestChain = SetTip(nd, @, prevNode),
                    !.b.stateSnapshot = state]
            ELSE [r1 EXCEPT
                    !.db.best = [state |-> state, workSum |-> nd[n].workSum],
                    !.db.utxo = dbPutUtxoView(@, r1.l.view),
                    !.db.journal = @ \ {n},
                    !.db.stake = prevNode,
                    !.l.wr = @ \cup {"best", "utxo", "journal", "stake"},
                    !.l.view = commit(@),
                    !.b.bestChain = SetTip(nd, @, prevNode),
                    !.b.stateSnapshot = state,
                    !.l.cur = n]

\* --------------------------------------------------------- disconnectBlock
\* disconnectBlock up to the point where it releases chainLock to notify
disconnectBlockCommit(r, n, F) ==
    LET nd == r.b.nodes
        tip == Tip(r.b.bestChain)
    IN  IF n # tip
        THEN [r EXCEPT !.l.panic = TRUE]
        ELSE
        LET r1 == flushBlockIndex(r, F, "flush")
            prevNode == nd[n].parent
            numTxns == countNumberOfTransactions(n)
            state == newBestState(nd, prevNode, numTxns,
                                  r.b.stateSnapshot.TotalTxns - numTxns)
        IN  IF r1.l.err # "nil" THEN r1
            ELSE IF Fails(r1, F, "update")
            THEN [Used(r1, "update") EXCEPT !.l.err = "StoreError"]
            ELSE [r1 EXCEPT
                    !.db.best = [state |-> state, workSum |-> nd[n].workSum],
                    !.db.utxo = dbPutUtxoView(@, r1.l.view),
                    !.db.journal = @ \ {n},
                    !.db.stake = prevNode,
                    !.l.wr = @ \cup {"best", "utxo", "journal", "stake"},
                    !.l.view = commit(@),
                    !.b.bestChain = SetTip(nd, @, prevNode),
                    !.b.stateSnapshot = state,
                    !.l.cur = n]

\* disconnectBlock after it took chainLock again
disconnectBlockFinish(r, n) == dropMainChainBlockCache(r, n)

\* ------------------------------------------------------ getReorganizeNodes
RECURSIVE SetStatusFlagsAll(_, _, _)
SetStatusFlagsAll(r, ns, flag) ==
    IF ns = <<>> THEN r
    ELSE SetStatusFlagsAll(SetStatusFlags(r, Head(ns), flag), Tail(ns), flag)

\* the walk from node towards the fork point: the nodes collected so far
\* (attachNodes, lowest first) and whether a known invalid node stopped it
RECURSIVE AttachWalk(_, _, _, _)
AttachWalk(r, n, forkNode, attachNodes) ==
    IF n = NoNode \/ n = forkNode
    THEN [attach |-> attachNodes, invalid |-> FALSE]
    ELSE IF KnownInvalid(r.b.status[n])
    THEN [attach |-> attachNodes, invalid |-> TRUE]
    ELSE AttachWalk(r, r.b.nodes[n].parent, forkNode, <<n>> \o attachNodes)

\* a getReorganizeNodes whose walk towards the fork point starts at the
\* parent of the node, so that the node itself is not attached
getReorganizeNodesFromParent(r, node) ==
    LET nd == r.b.nodes
    IN  IF node = NoNode THEN <<r, <<>>, <<>> >>
        ELSE IF KnownInvalid(r.b.status[nd[node].parent])
        THEN <<SetStatusFlags(r, node, statusInvalidAncestor), <<>>, <<>> >>
        ELSE
        LET forkNode == FindFork(nd, r.b.bestChain, node)
            w == AttachWalk(r, nd[node].parent, forkNode, <<>>)
        IN  IF w.invalid
            THEN <<SetStatusFlagsAll(r, w.attach, statusInvalidAncestor),
                   <<>>, <<>> >>
            ELSE <<r, WalkBack(nd, Tip(r.b.bestChain), forkNode), w.attach>>

\* a getReorganizeNodes that returns the nodes to detach lowest first
getReorganizeNodesDetachAscending(r, node) ==
    LET nd == r.b.nodes
    IN  IF node = NoNode THEN <<r, <<>>, <<>> >>
        ELSE IF KnownInvalid(r.b.status[nd[node].parent])
        THEN <<SetStatusFlags(r, node, statusInvalidAncestor), <<>>, <<>> >>
        ELSE
        LET forkNode == FindFork(nd, r.b.bestChain, node)
            w == AttachWalk(r, node, forkNode, <<>>)
        IN  IF w.invalid
            THEN <<SetStatusFlagsAll(r, w.attach, statusInvalidAncestor),
                   <<>>, <<>> >>
            ELSE <<r, Reverse(WalkBack(nd, Tip(r.b.bestChain), forkNode)),
                   w.attach>>

\* a getReorganizeNodes whose walk, when it meets a known invalid node,
\* returns without marking the nodes it collected
getReorganizeNodesWalkUnmarked(r, node) ==
    LET nd == r.b.nodes
    IN  IF node = NoNode THEN <<r, <<>>, <<>> >>
        ELSE IF KnownInvalid(r.b.status[nd[node].parent])
        THEN <<SetStatusFlags(r, node, statusInvalidAncestor), <<>>, <<>> >>
        ELSE
        LET forkNode == FindFork(nd, r.b.bestChain, node)
            w == AttachWalk(r, node, forkNode, <<>>)
        IN  IF w.invalid
            THEN <<r, <<>>, <<>> >>
            ELSE <<r, WalkBack(nd, Tip(r.b.bestChain), forkNode), w.attach>>

\* returns the record (its index statuses possibly changed), the nodes to
\* detach and the nodes to attach, in this order
getReorganizeNodes(r, node) ==
    LET nd == r.b.nodes
    IN  IF node = NoNode THEN <<r, <<>>, <<>> >>
        ELSE IF KnownInvalid(r.b.status[nd[node].parent])
        THEN <<SetStatusFlags(r, node, statusInvalidAncestor), <<>>, <<>> >>
        ELSE
        LET forkNode == FindFork(nd, r.b.bestChain, node)
            w == AttachWalk(r, node, forkNode, <<>>)
        IN  IF w.invalid
            THEN <<SetStatusFlagsAll(r, w.attach, statusInvalidAncestor),
                   <<>>, <<>> >>
            ELSE <<r, WalkBack(nd, Tip(r.b.bestChain), forkNode), w.attach>>

\* ------------------------------------------------- variants of the code
\* a validation pass that connects each block it found valid to the view
\* of the best chain instead of only recording its status
RECURSIVE reorganizeCheckAttachConnecting(_, _, _, _, _)
reorganizeCheckAttachConnecting(r, attachNodes, i, F, fk) ==
    IF i > Len(attachNodes) THEN r
    ELSE
    LET n == attachNodes[i]
    IN  IF Fails(r, F, "fetch") /\ fk = i
        THEN [Used(r, "fetch") EXCEPT !.l.err = "StoreError"]
        ELSE IF ~KnownValid(r.b.status[n]) /\ r.b.nodes[n].verdict = "rule"
        THEN [SetStatusFlagsAll(SetStatusFlags(r, n, statusValidateFailed),
                                SubSeq(attachNodes, i + 1, Len(attachNodes)),
                                statusInvalidAncestor)
                EXCEPT !.l.err = "RuleError"]
        ELSE reorganizeCheckAttachConnecting(
                 [SetStatusFlags(r, n, statusValid)
                    EXCEPT !.b.bestChain = SetTip(r.b.nodes, @, n)],
                 attachNodes, i + 1, F, fk)

\* a validation pass that stores the spend journal entry of each block it
\* checked
RECURSIVE reorganizeCheckAttachJournal(_, _, _, _, _)
reorganizeCheckAttachJournal(r, attachNodes, i, F, fk) ==
    IF i > Len(attachNodes) THEN r
    ELSE
    LET n == attachNodes[i]
        r1 == [r EXCEPT !.db.journal = @ \cup {n},
                        !.l.wr = @ \cup {"journal"}]
    IN  IF Fails(r, F, "fetch") /\ fk = i
        THEN [Used(r, "fetch") EXCEPT !.l.err = "StoreError"]
        ELSE IF KnownValid(r.b.status[n])
        THEN reorganizeCheckAttachJournal(r, attachNodes, i + 1, F, fk)
        ELSE IF r.b.nodes[n].verdict = "rule"
        THEN [SetStatusFlagsAll(SetStatusFlags(r1, n, statusValidateFailed),
                                SubSeq(attachNodes, i + 1, Len(attachNodes)),
                                statusInvalidAncestor)
                EXCEPT !.l.err = "RuleError"]
        ELSE reorganizeCheckAttachJournal(SetStatusFlags(r1, n, statusValid),
                                          attachNodes, i + 1, F, fk)

\* a validation pass that does not record that a block it checked is valid
RECURSIVE reorganizeCheckAttachUnmarked(_, _, _, _, _)
reorganizeCheckAttachUnmarked(r, attachNodes, i, F, fk) ==
    IF i > Len(attachNodes) THEN r
    ELSE
    LET n == attachNodes[i]
    IN  IF Fails(r, F, "fetch") /\ fk = i
        THEN [Used(r, "fetch") EXCEPT !.l.err = "StoreError"]
        ELSE IF KnownValid(r.b.status[n])
        THEN reorganizeCheckAttachUnmarked(r, attachNodes, i + 1, F, fk)
        ELSE IF r.b.nodes[n].verdict = "rule"
        THEN [SetStatusFlagsAll(SetStatusFlags(r, n, statusValidateFailed),
                                SubSeq(attachNodes, i + 1, Len(attachNodes)),
                                statusInvalidAncestor)
                EXCEPT !.l.err = "RuleError"]
        ELSE reorganizeCheckAttachUnmarked(r, attachNodes, i + 1, F, fk)

\* a validation pass that records a rule violation and goes on to check the
\* blocks after the one that failed
RECURSIVE reorganizeCheckAttachContinuing(_, _, _, _, _)
reorganizeCheckAttachContinuing(r, attachNodes, i, F, fk) ==
    IF i > Len(attachNodes) THEN r
    ELSE
    LET n == attachNodes[i]
    IN  IF Fails(r, F, "fetch") /\ fk = i
        THEN [Used(r, "fetch") EXCEPT !.l.err = "StoreError"]
        ELSE IF KnownValid(r.b.status[n])
        THEN reorganizeCheckAttachContinuing(r, attachNodes, i + 1, F, fk)
        ELSE IF r.b.nodes[n].verdict = "rule"
        THEN reorganizeCheckAttachContinuing(
                 [SetStatusFlags(r, n, statusValidateFailed)
                    EXCEPT !.l.err = "RuleError"],
                 attachNodes, i + 1, F, fk)
        ELSE reorganizeCheckAttachContinuing(
                 SetStatusFlags(r, n, statusValid), attachNodes, i + 1, F, fk)

\* a validation pass that marks the rejected node InvalidAncestor as well
RECURSIVE reorganizeCheckAttachFromFailed(_, _, _, _, _)
reorganizeCheckAttachFromFailed(r, attachNodes, i, F, fk) ==
    IF i > Len(attachNodes) THEN r
    ELSE
    LET n == attachNodes[i]
    IN  IF Fails(r, F, "fetch") /\ fk = i
        THEN [Used(r, "fetch") EXCEPT !.l.err = "StoreError"]
        ELSE IF KnownValid(r.b.status[n])
        THEN reorganizeCheckAttachFromFailed(r, attachNodes, i + 1, F, fk)
        ELSE IF r.b.nodes[n].verdict = "rule"
        THEN [SetStatusFlagsAll(SetStatusFlags(r, n, statusValidateFailed),
                                SubSeq(attachNodes, i, Len(attachNodes)),
                                statusInvalidAncestor)
                EXCEPT !.l.err = "RuleError"]
        ELSE reorganizeCheckAttachFromFailed(
                 SetStatusFlags(r, n, statusValid), attachNodes, i + 1, F, fk)

\* --------------------------------------------------------- reorganizeChain
\* the validation pass over attachNodes[i..]: known valid nodes are passed,
\* the others are checked; fk > 0 names the node whose block cannot be
\* loaded or checked because the store fails
RECURSIVE reorganizeCheckAttach(_, _, _, _, _)
reorganizeCheckAttach(r, attachNodes, i, F, fk) ==
    IF i > Len(attachNodes) THEN r
    ELSE
    LET n == attachNodes[i]
    IN  IF Fails(r, F, "fetch") /\ fk = i
        THEN [Used(r, "fetch") EXCEPT !.l.err = "StoreError"]
        ELSE IF KnownValid(r.b.status[n])
        THEN reorganizeCheckAttach(r, attachNodes, i + 1, F, fk)
        ELSE IF r.b.nodes[n].verdict = "rule"
        THEN [SetStatusFlagsAll(SetStatusFlags(r, n, statusValidateFailed),
                                SubSeq(attachNodes, i + 1, Len(attachNodes)),
                                statusInvalidAncestor)
                EXCEPT !.l.err = "RuleError"]
        ELSE reorganizeCheckAttach(SetStatusFlags(r, n, statusValid),
                                   attachNodes, i + 1, F, fk)

\* reorganizeChain from its entry to the first release of chainLock (the
\* Reorganization notification), or to its return when it returns before
reorganizeChain(r, detachNodes, attachNodes, F, fk) ==
    LET nd == r.b.nodes
        chain == r.b.bestChain
        tip == Tip(chain)
        ret == [r EXCEPT !.pc = "rg_ret",
                         !.l.detach = detachNodes,
                         !.l.attach = attachNodes,
                         !.l.oldBest = tip]
        dl == Len(detachNodes)
        al == Len(attachNodes)
        newBest == IF dl = 0 THEN tip ELSE nd[detachNodes[dl]].parent
        linked == /\ \A i \in 2..al :
                        nd[attachNodes[i]].parent = attachNodes[i - 1]
                  /\ al > 0 => nd[attachNodes[1]].parent = newBest
        loaded == /\ \A i \in 1..dl :
                        /\ Contains(nd, chain, detachNodes[i])
                        /\ Contains(nd, chain, nd[detachNodes[i]].parent)
                        /\ detachNodes[i] \in r.db.journal
                  /\ al > 0 => Contains(nd, chain, newBest)
    IN  IF dl = 0 /\ al = 0 THEN ret
        ELSE IF dl # 0 /\ detachNodes[1] # tip
        THEN [r EXCEPT !.l.panic = TRUE, !.pc = "panic"]
        ELSE IF al # 0 /\ dl # 0
                /\ nd[attachNodes[1]].parent # nd[detachNodes[dl]].parent
        THEN [r EXCEPT !.l.panic = TRUE, !.pc = "panic"]
        ELSE IF Fails(r, F, "fetch") /\ fk = 0
        THEN [Used(ret, "fetch") EXCEPT !.l.err = "StoreError"]
        ELSE IF ~loaded
        THEN [ret EXCEPT !.l.err = "NotInMainChain"]
        ELSE IF ~linked
        THEN [r EXCEPT !.l.panic = TRUE, !.pc = "panic"]
        ELSE
        LET r1 == reorganizeCheckAttach(ret, attachNodes, 1, F, fk)
        IN  IF r1.l.err # "nil" THEN r1
            ELSE [r1 EXCEPT !.l.newBest = IF al = 0 THEN newBest
                                          ELSE attachNodes[al],
                            !.l.forkNode = IF al = 0 THEN NoNode ELSE newBest,
                            !.l.inReorg = TRUE,
                            !.l.view = NewUtxoViewpoint,
                            !.pc = "rg_reorg_ntfn"]

\* what the caller of connectBlock or disconnectBlock notes when the call
\* returns an error: the tip, snapshot and cache the call started from and
\* the number of notifications sent before it
Entry(r) ==
    [bestChain |-> r.b.bestChain,
     stateSnapshot |-> r.b.stateSnapshot,
     mainchainBlockCache |-> r.b.mainchainBlockCache,
     sent |-> Len(r.l.log)]

\* a reorganizeChain that sends ChainReorgDone at its end and not by a
\* deferred call: the error of a connectBlock or disconnectBlock is returned
\* without it
reorganizeStepNoDefer(r, F) ==
    LET l == r.l
        nd == r.b.nodes
        done == [r EXCEPT !.pc = "rg_done_ntfn"]
    IN  IF l.i < Len(l.detach)
        THEN
        LET n == l.detach[l.i + 1]
        IN  IF Fails(r, F, "fetch")
            THEN [Used(done, "fetch") EXCEPT !.l.err = "StoreError"]
            ELSE
            LET r1 == disconnectBlockCommit(
                        [r EXCEPT !.l.view = disconnectTransactions(@, n)],
                        n, F)
            IN  IF r1.l.panic THEN [r1 EXCEPT !.pc = "panic"]
                ELSE IF r1.l.err # "nil"
                THEN [r1 EXCEPT !.pc = "rg_ret", !.l.failed = Entry(r)]
                ELSE [r1 EXCEPT !.l.i = @ + 1, !.pc = "db_ntfn"]
        ELSE IF l.j < Len(l.attach)
        THEN
        LET n == l.attach[l.j + 1]
            parent == IF l.j = 0 THEN l.forkNode ELSE l.attach[l.j]
        IN  IF nd[n].parent # parent
            THEN [r EXCEPT !.l.panic = TRUE, !.pc = "panic"]
            ELSE IF Fails(r, F, "fetch")
            THEN [Used(done, "fetch") EXCEPT !.l.err = "StoreError"]
            ELSE
            LET r1 == connectBlockCommit(
                        [r EXCEPT !.l.view = connectTransactions(@, n)],
                        n, F)
            IN  IF r1.l.panic THEN [r1 EXCEPT !.pc = "panic"]
                ELSE IF r1.l.err # "nil"
                THEN [r1 EXCEPT !.pc = "rg_ret", !.l.failed = Entry(r)]
                ELSE [r1 EXCEPT !.l.j = @ + 1, !.pc = "cb_ntfn"]
        ELSE done

\* the second pass of reorganizeChain, from a point where chainLock is held
\* to the next release of it: one disconnectBlock, one connectBlock, or the
\* end of the function
reorganizeStep(r, F) ==
    LET l == r.l
        nd == r.b.nodes
        done == [r EXCEPT !.pc = "rg_done_ntfn"]
    IN  IF l.i < Len(l.detach)
        THEN
        LET n == l.detach[l.i + 1]
        IN  IF Fails(r, F, "fetch")
            THEN [Used(done, "fetch") EXCEPT !.l.err = "StoreError"]
            ELSE
            LET r1 == disconnectBlockCommit(
                        [r EXCEPT !.l.view = disconnectTransactions(@, n)],
                        n, F)
            IN  IF r1.l.panic THEN [r1 EXCEPT !.pc = "panic"]
                ELSE IF r1.l.err # "nil"
                THEN [r1 EXCEPT !.pc = "rg_done_ntfn", !.l.failed = Entry(r)]
                ELSE [r1 EXCEPT !.l.i = @ + 1, !.pc = "db_ntfn"]
        ELSE IF l.j < Len(l.attach)
        THEN
        LET n == l.attach[l.j + 1]
            parent == IF l.j = 0 THEN l.forkNode ELSE l.attach[l.j]
        IN  IF nd[n].parent # parent
            THEN [r EXCEPT !.l.panic = TRUE, !.pc = "panic"]
            ELSE IF Fails(r, F, "fetch")
            THEN [Used(done, "fetch") EXCEPT !.l.err = "StoreError"]
            ELSE
            LET r1 == connectBlockCommit(
                        [r EXCEPT !.l.view = connectTransactions(@, n)],
                        n, F)
            IN  IF r1.l.panic THEN [r1 EXCEPT !.pc = "panic"]
                ELSE IF r1.l.err # "nil"
                THEN [r1 EXCEPT !.pc = "rg_done_ntfn", !.l.failed = Entry(r)]
                ELSE [r1 EXCEPT !.l.j = @ + 1, !.pc = "cb_ntfn"]
        ELSE done

\* a forceHeadReorganization that looks for the child before it compares
\* the former best block with the tip
forceHeadReorganizationChildFirst(r, formerBest, newBest, F, fk) ==
    LET nd == r.b.nodes
        chain == r.b.bestChain
        formerBestNode == Tip(chain)
        ret == [r EXCEPT !.pc = "ret"]
    IN  IF formerBest = newBest
        THEN [ret EXCEPT !.l.err = "SameBlock"]
        ELSE IF newBest \notin DOMAIN nd
                \/ nd[newBest].parent # nd[formerBestNode].parent
        THEN [ret EXCEPT !.l.err = "ErrForceReorgMissingChild"]
        ELSE IF formerBestNode # formerBest
        THEN [ret EXCEPT !.l.err = "ErrForceReorgWrongChain"]
        ELSE IF KnownInvalid(r.b.status[newBest])
        THEN [ret EXCEPT !.l.err = "ErrKnownInvalidBlock"]
        ELSE
        LET checked ==
                IF KnownValid(r.b.status[newBest]) THEN r
                ELSE IF Fails(r, F, "fetch") /\ fk = 0
                THEN [Used(r, "fetch") EXCEPT !.l.err = "StoreError"]
                ELSE IF ~Contains(nd, chain, nd[formerBestNode].parent)
                THEN [r EXCEPT !.l.err = "NotInMainChain"]
                ELSE IF formerBestNode \notin r.db.journal
                THEN [r EXCEPT !.l.err = "StoreError"]
                ELSE IF nd[newBest].verdict \in {"sanity", "context"}
                THEN [r EXCEPT !.l.err = "RuleError"]
                ELSE IF nd[newBest].verdict = "rule"
                THEN [SetStatusFlags(r, newBest, statusValidateFailed)
                        EXCEPT !.l.err = "RuleError"]
                ELSE SetStatusFlags(r, newBest, statusValid)
        IN  IF checked.l.err # "nil" THEN [checked EXCEPT !.pc = "ret"]
            ELSE
            LET g == getReorganizeNodes(checked, newBest)
                attach == g[2]
                detach == g[3]
            IN  reorganizeChain(g[1], attach, detach, F, fk)

\* a forceHeadReorganization that hands its two lists to reorganizeChain by
\* the names it gave them
forceHeadReorganizationByName(r, formerBest, newBest, F, fk) ==
    LET nd == r.b.nodes
        chain == r.b.bestChain
        formerBestNode == Tip(chain)
        ret == [r EXCEPT !.pc = "ret"]
    IN  IF formerBest = newBest
        THEN [ret EXCEPT !.l.err = "SameBlock"]
        ELSE IF formerBestNode # formerBest
        THEN [ret EXCEPT !.l.err = "ErrForceReorgWrongChain"]
        ELSE IF newBest \notin DOMAIN nd
                \/ nd[newBest].parent # nd[formerBestNode].parent
        THEN [ret EXCEPT !.l.err = "ErrForceReorgMissingChild"]
        ELSE IF KnownInvalid(r.b.status[newBest])
        THEN [ret EXCEPT !.l.err = "ErrKnownInvalidBlock"]
        ELSE
        LET checked ==
                IF KnownValid(r.b.status[newBest]) THEN r
                ELSE IF Fails(r, F, "fetch") /\ fk = 0
                THEN [Used(r, "fetch") EXCEPT !.l.err = "StoreError"]
                ELSE IF ~Contains(nd, chain, nd[formerBestNode].parent)
                THEN [r EXCEPT !.l.err = "NotInMainChain"]
                ELSE IF formerBestNode \notin r.db.journal
                THEN [r EXCEPT !.l.err = "StoreError"]
                ELSE IF nd[newBest].verdict \in {"sanity", "context"}
                THEN [r EXCEPT !.l.err = "RuleError"]
                ELSE IF nd[newBest].verdict = "rule"
                THEN [SetStatusFlags(r, newBest, statusValidateFailed)
                        EXCEPT !.l.err = "RuleError"]
                ELSE SetStatusFlags(r, newBest, statusValid)
        IN  IF checked.l.err # "nil" THEN [checked EXCEPT !.pc = "ret"]
            ELSE
            LET g == getReorganizeNodes(checked, newBest)
                attach == g[2]
                detach == g[3]
            IN  reorganizeChain(g[1], detach, attach, F, fk)

\* ------------------------------------------------- forceHeadReorganization
\* from its entry to the first release of chainLock or to its return
forceHeadReorganization(r, formerBest, newBest, F, fk) ==
    LET nd == r.b.nodes
        chain == r.b.bestChain
        formerBestNode == Tip(chain)
        ret == [r EXCEPT !.pc = "ret"]
    IN  IF formerBest = newBest
        THEN [ret EXCEPT !.l.err = "SameBlock"]
        ELSE IF formerBestNode # formerBest
        THEN [ret EXCEPT !.l.err = "ErrForceReorgWrongChain"]
        ELSE IF newBest \notin DOMAIN nd
                \/ nd[newBest].parent # nd[formerBestNode].parent
        THEN [ret EXCEPT !.l.err = "ErrForceReorgMissingChild"]
        ELSE IF KnownInvalid(r.b.status[newBest])
        THEN [ret EXCEPT !.l.err = "ErrKnownInvalidBlock"]
        ELSE
        LET checked ==
                IF KnownValid(r.b.status[newBest]) THEN r
                ELSE IF Fails(r, F, "fetch") /\ fk = 0
                THEN [Used(r, "fetch") EXCEPT !.l.err = "StoreError"]
                ELSE IF ~Contains(nd, chain, nd[formerBestNode].parent)
                THEN [r EXCEPT !.l.err = "NotInMainChain"]
                ELSE IF formerBestNode \notin r.db.journal
                THEN [r EXCEPT !.l.err = "StoreError"]
                ELSE IF nd[newBest].verdict \in {"sanity", "context"}
                THEN [r EXCEPT !.l.err = "RuleError"]
                ELSE IF nd[newBest].verdict = "rule"
                THEN [SetStatusFlags(r, newBest, statusValidateFailed)
                        EXCEPT !.l.err = "RuleError"]
                ELSE SetStatusFlags(r, newBest, statusValid)
        IN  IF checked.l.err # "nil" THEN [checked EXCEPT !.pc = "ret"]
            ELSE
            LET g == getReorganizeNodes(checked, newBest)
                attach == g[2]
                detach == g[3]
            IN  reorganizeChain(g[1], attach, detach, F, fk)

\* ------------------------------------------------- variants of the code
\* an extend case that validates the block whether or not BFFastAdd is given
connectBestChainExtendAlwaysChecked(r, node, flagFastAdd, F) ==
    LET nd == r.b.nodes
        ret == [r EXCEPT !.pc = "ret"]
        isKnownValid == KnownValid(r.b.status[node])
        fastAdd == isKnownValid
        failed == ~fastAdd /\ nd[node].verdict = "rule"
        marked == IF ~isKnownValid
                  THEN flushBlockIndexWarnOnly(
                           SetStatusFlags(r, node, statusValid), F)
                  ELSE r
        viewed == [marked EXCEPT
                     !.l.view = connectTransactions(NewUtxoViewpoint, node)]
        conn == connectBlockCommit(viewed, node, F)
    IN  IF ~fastAdd /\ Fails(r, F, "fetch")
        THEN [Used(ret, "fetch") EXCEPT !.l.err = "StoreError"]
        ELSE IF failed
        THEN [flushBlockIndexWarnOnly(
                  SetStatusFlags(ret, node, statusValidateFailed), F)
                EXCEPT !.l.err = "RuleError"]
        ELSE IF fastAdd /\ Fails(marked, F, "fetch")
        THEN [Used(marked, "fetch") EXCEPT !.l.err = "StoreError",
                                            !.pc = "ret"]
        ELSE IF conn.l.panic THEN [conn EXCEPT !.pc = "panic"]
        ELSE IF conn.l.err # "nil"
        THEN [conn EXCEPT !.pc = "ret", !.l.failed = Entry(viewed)]
        ELSE [conn EXCEPT !.pc = "cb_ntfn"]

\* an extend case that returns the rule error of the validator without
\* recording it in the status of the node
connectBestChainExtendUnmarked(r, node, flagFastAdd, F) ==
    LET nd == r.b.nodes
        ret == [r EXCEPT !.pc = "ret"]
        isKnownValid == KnownValid(r.b.status[node])
        fastAdd == flagFastAdd \/ isKnownValid
        failed == ~fastAdd /\ nd[node].verdict = "rule"
        marked == IF ~isKnownValid
                  THEN flushBlockIndexWarnOnly(
                           SetStatusFlags(r, node, statusValid), F)
                  ELSE r
        viewed == [marked EXCEPT
                     !.l.view = connectTransactions(NewUtxoViewpoint, node)]
        conn == connectBlockCommit(viewed, node, F)
    IN  IF ~fastAdd /\ Fails(r, F, "fetch")
        THEN [Used(ret, "fetch") EXCEPT !.l.err = "StoreError"]
        ELSE IF failed
        THEN [ret EXCEPT !.l.err = "RuleError"]
        ELSE IF fastAdd /\ Fails(marked, F, "fetch")
        THEN [Used(marked, "fetch") EXCEPT !.l.err = "StoreError",
                                            !.pc = "ret"]
        ELSE IF conn.l.panic THEN [conn EXCEPT !.pc = "panic"]
        ELSE IF conn.l.err # "nil"
        THEN [conn EXCEPT !.pc = "ret", !.l.failed = Entry(viewed)]
        ELSE [conn EXCEPT !.pc = "cb_ntfn"]

\* -------------------------------------------------------- connectBestChain
\* the case of a block that extends the tip, up to the first release of
\* chainLock or to the return
connectBestChainExtend(r, node, flagFastAdd, F) ==
    LET nd == r.b.nodes
        ret == [r EXCEPT !.pc = "ret"]
        isKnownValid == KnownValid(r.b.status[node])
        fastAdd == flagFastAdd \/ isKnownValid
        failed == ~fastAdd /\ nd[node].verdict = "rule"
        marked == IF ~isKnownValid
                  THEN flushBlockIndexWarnOnly(
                           SetStatusFlags(r, node, statusValid), F)
                  ELSE r
        viewed == [marked EXCEPT
                     !.l.view = connectTransactions(NewUtxoViewpoint, node)]
        conn == connectBlockCommit(viewed, node, F)
    IN  IF ~fastAdd /\ Fails(r, F, "fetch")
        THEN [Used(ret, "fetch") EXCEPT !.l.err = "StoreError"]
        ELSE IF failed
        THEN [flushBlockIndexWarnOnly(
                  SetStatusFlags(ret, node, statusValidateFailed), F)
                EXCEPT !.l.err = "RuleError"]
        ELSE IF fastAdd /\ Fails(marked, F, "fetch")
        THEN [Used(marked, "fetch") EXCEPT !.l.err = "StoreError",
                                            !.pc = "ret"]
        ELSE IF conn.l.panic THEN [conn EXCEPT !.pc = "panic"]
        ELSE IF conn.l.err # "nil"
        THEN [conn EXCEPT !.pc = "ret", !.l.failed = Entry(viewed)]
        ELSE [conn EXCEPT !.pc = "cb_ntfn"]

\* a connectBestChain that reorganizes to a side chain of equal work
connectBestChainOnEqualWork(r, node, flagFastAdd, F, fk) ==
    LET nd == r.b.nodes
        parentHash == nd[node].parent
        tip == Tip(r.b.bestChain)
        ret == [r EXCEPT !.pc = "ret"]
    IN  IF parentHash = tip
        THEN connectBestChainExtend(r, node, flagFastAdd, F)
        ELSE IF nd[node].workSum < nd[tip].workSum
        THEN
        LET fork == FindFork(nd, r.b.bestChain, node)
        IN  [ret EXCEPT !.l.forkLen = nd[node].height - nd[fork].height]
        ELSE
        LET g == getReorganizeNodes(r, node)
            detachNodes == g[2]
            attachNodes == g[3]
        IN  reorganizeChain(g[1], detachNodes, attachNodes, F, fk)

\* a connectBestChain that takes the longer chain for the better one
connectBestChainByHeight(r, node, flagFastAdd, F, fk) ==
    LET nd == r.b.nodes
        parentHash == nd[node].parent
        tip == Tip(r.b.bestChain)
        ret == [r EXCEPT !.pc = "ret"]
    IN  IF parentHash = tip
        THEN connectBestChainExtend(r, node, flagFastAdd, F)
        ELSE IF nd[node].height <= nd[tip].height
        THEN
        LET fork == FindFork(nd, r.b.bestChain, node)
        IN  [ret EXCEPT !.l.forkLen = nd[node].height - nd[fork].height]
        ELSE
        LET g == getReorganizeNodes(r, node)
            detachNodes == g[2]
            attachNodes == g[3]
        IN  reorganizeChain(g[1], detachNodes, attachNodes, F, fk)

\* from its entry to the first release of chainLock or to its return
connectBestChain(r, node, flagFastAdd, F, fk) ==
    LET nd == r.b.nodes
        parentHash == nd[node].parent
        tip == Tip(r.b.bestChain)
        ret == [r EXCEPT !.pc = "ret"]
    IN  IF parentHash = tip
        THEN connectBestChainExtend(r, node, flagFastAdd, F)
        ELSE IF nd[node].workSum <= nd[tip].workSum
        THEN
        LET fork == FindFork(nd, r.b.bestChain, node)
        IN  [ret EXCEPT !.l.forkLen = nd[node].height - nd[fork].height]
        ELSE
        LET g == getReorganizeNodes(r, node)
            detachNodes == g[2]
            attachNodes == g[3]
        IN  reorganizeChain(g[1], detachNodes, attachNodes, F, fk)

\* ----------------------------------------------------------------- queries
\* index.LookupNode: the node of the hash, nil when the index has none
LookupNode(nd, hash) == IF hash \in DOMAIN nd THEN hash ELSE NoNode

\* the node of the first hash of the locator that is in the main chain, and
\* the genesis block when no hash of it is
RECURSIVE FirstKnown(_, _, _)
FirstKnown(nd, chain, locator) ==
    IF locator = <<>> THEN chainViewGenesis(chain)
    ELSE
    LET node == LookupNode(nd, Head(locator))
    IN  IF node # NoNode /\ Contains(nd, chain, node) THEN node
        ELSE FirstKnown(nd, chain, Tail(locator))

\* a locateInventory that starts at the most recently known block itself
\* instead of at the block after it
locateInventoryFromKnown(bc, locator, hashStop, maxEntries) ==
    LET nd == bc.nodes
        chain == bc.bestChain
        stopNode == LookupNode(nd, hashStop)
        startNode == FirstKnown(nd, chain, locator)
        toTip == (nd[Tip(chain)].height - nd[startNode].height) + 1
        total == IF /\ stopNode # NoNode
                    /\ Contains(nd, chain, stopNode)
                    /\ nd[stopNode].height >= nd[startNode].height
                 THEN (nd[stopNode].height - nd[startNode].height) + 1
                 ELSE toTip
    IN  IF Len(locator) = 0
        THEN IF stopNode = NoNode THEN [node |-> NoNode, total |-> 0]
             ELSE [node |-> stopNode, total |-> 1]
        ELSE [node |-> startNode,
              total |-> IF total > maxEntries THEN maxEntries ELSE total]

\* a locateInventory that does not limit the number of nodes to maxEntries
locateInventoryUnlimited(bc, locator, hashStop, maxEntries) ==
    LET nd == bc.nodes
        chain == bc.bestChain
        stopNode == LookupNode(nd, hashStop)
        startNode == chainViewNext(nd, chain, FirstKnown(nd, chain, locator))
        toTip == (nd[Tip(chain)].height - nd[startNode].height) + 1
        total == IF /\ stopNode # NoNode
                    /\ Contains(nd, chain, stopNode)
                    /\ nd[stopNode].height >= nd[startNode].height
                 THEN (nd[stopNode].height - nd[startNode].height) + 1
                 ELSE toTip
    IN  IF Len(locator) = 0
        THEN IF stopNode = NoNode THEN [node |-> NoNode, total |-> 0]
             ELSE [node |-> stopNode, total |-> 1]
        ELSE IF startNode = NoNode THEN [node |-> NoNode, total |-> 0]
        ELSE [node |-> startNode, total |-> total]

\* returns the node to start at and the number of nodes to send
locateInventory(bc, locator, hashStop, maxEntries) ==
    LET nd == bc.nodes
        chain == bc.bestChain
        stopNode == LookupNode(nd, hashStop)
        startNode == chainViewNext(nd, chain, FirstKnown(nd, chain, locator))
        toTip == (nd[Tip(chain)].height - nd[startNode].height) + 1
        total == IF /\ stopNode # NoNode
                    /\ Contains(nd, chain, stopNode)
                    /\ nd[stopNode].height >= nd[startNode].height
                 THEN (nd[stopNode].height - nd[startNode].height) + 1
                 ELSE toTip
    IN  IF Len(locator) = 0
        THEN IF stopNode = NoNode THEN [node |-> NoNode, total |-> 0]
             ELSE [node |-> stopNode, total |-> 1]
        ELSE IF startNode = NoNode THEN [node |-> NoNode, total |-> 0]
        ELSE [node |-> startNode,
              total |-> IF total > maxEntries THEN maxEntries ELSE total]

\* the loop of locateBlocks: it appends node.hash and moves to the next node
\* of the view, count times; node.hash of a nil node is a nil dereference
RECURSIVE locateBlocksLoop(_, _, _, _)
locateBlocksLoop(nd, chain, node, count) ==
    IF count = 0 THEN [hashes |-> <<>>, err |-> "nil"]
    ELSE IF node = NoNode THEN [hashes |-> <<>>, err |-> "nilDereference"]
    ELSE
    LET rest == locateBlocksLoop(nd, chain, chainViewNext(nd, chain, node),
                                 count - 1)
    IN  [hashes |-> <<node>> \o rest.hashes, err |-> rest.err]

\* the hashes locateBlocks returns, and the error it dies of
locateBlocks(bc, locator, hashStop, maxHashes) ==
    LET found == locateInventory(bc, locator, hashStop, maxHashes)
    IN  IF found.total = 0 THEN [hashes |-> <<>>, err |-> "nil"]
        ELSE locateBlocksLoop(bc.nodes, bc.bestChain, found.node,
                              found.total)

\* the hashes HeightRange collects: count nodes from iterNode back, the
\* lowest first
RECURSIVE heightRangeWalk(_, _, _)
heightRangeWalk(nd, iterNode, count) ==
    IF count = 0 THEN <<>>
    ELSE Append(heightRangeWalk(nd, nd[iterNode].parent, count - 1), iterNode)

\* HeightRange up to its read of the height of the tip: the call returns an
\* error or nil, or goes on with the end height limited
heightRangeLimit(bc, startHeight, endHeight) ==
    LET latestHeight == bc.nodes[Tip(bc.bestChain)].height
    IN  IF startHeight < 0 \/ endHeight < startHeight
        THEN [returned |-> TRUE, err |-> "error", hashes |-> <<>>]
        ELSE IF startHeight = endHeight \/ startHeight > latestHeight
        THEN [returned |-> TRUE, err |-> "nil", hashes |-> <<>>]
        ELSE [returned |-> FALSE,
              endHeight |-> IF endHeight > latestHeight + 1
                            THEN latestHeight + 1 ELSE endHeight]

\* a HeightRange that collects the blocks below the end height down to the
\* genesis block
heightRangeFetchFromGenesis(bc, startHeight, endHeight) ==
    LET iterNode == NodeByHeight(bc.bestChain, endHeight - 1)
    IN  IF iterNode = NoNode
        THEN [returned |-> TRUE, err |-> "nilDereference", hashes |-> <<>>]
        ELSE [returned |-> TRUE, err |-> "nil",
              hashes |-> heightRangeWalk(bc.nodes, iterNode, endHeight)]

\* HeightRange from its read of the node below the end height: a node that is
\* missing is dereferenced
heightRangeFetch(bc, startHeight, endHeight) ==
    LET iterNode == NodeByHeight(bc.bestChain, endHeight - 1)
    IN  IF iterNode = NoNode
        THEN [returned |-> TRUE, err |-> "nilDereference", hashes |-> <<>>]
        ELSE [returned |-> TRUE, err |-> "nil",
              hashes |-> heightRangeWalk(bc.nodes, iterNode,
                                         endHeight - startHeight)]

\* index.chainTips[height]: the entries of the index with that height
chainTips(bc, height) == {n \in DOMAIN bc.nodes : bc.nodes[n].height = height}

TipGeneration(bc) == chainTips(bc, bc.nodes[Tip(bc.bestChain)].height)

\* ----------------------------------------------------------------- state
\* history of the tip transitions: what the best state was before the last
\* connectBlock, and whether the disconnectBlock of the same node came next
NoHist == [node |-> NoNode, state |-> <<>>, best |-> <<>>, undone |-> FALSE]

IdleLoc ==
    [op |-> "none", node |-> NoNode, former |-> NoNode, target |-> NoNode,
     fastAdd |-> FALSE, detach |-> <<>>, attach |-> <<>>, i |-> 0, j |-> 0,
     err |-> "nil", forkLen |-> 0, oldBest |-> NoNode, newBest |-> NoNode,
     forkNode |-> NoNode, inReorg |-> FALSE, cur |-> NoNode,
     view |-> NewUtxoViewpoint, wr |-> {}, log |-> <<>>, used |-> {},
     panic |-> FALSE, pre |-> <<>>, failed |-> <<>>, q |-> <<>>]

\* the chain of a new database: the genesis block alone, valid and connected
GenesisState == newBestState(
                   Genesis :> [parent |-> NoNode, height |-> 0],
                   Genesis, countNumberOfTransactions(Genesis),
                   countNumberOfTransactions(Genesis))

\* the BlockChain struct and the store of a new database
GenesisChain ==
    [nodes |-> Genesis :> [parent |-> NoNode, height |-> 0,
                           workSum |-> 1, verdict |-> "ok"],
     status |-> Genesis :> {statusDataStored, statusValid},
     modified |-> {},
     bestChain |-> <<Genesis>>,
     stateSnapshot |-> GenesisState,
     mainchainBlockCache |-> {},
     orphans |-> <<>>,
     prevOrphans |-> <<>>,
     oldestOrphan |-> NoOrphan]

GenesisStore ==
    [best |-> [state |-> GenesisState, workSum |-> 1],
     utxo |-> {Genesis},
     journal |-> {},
     stake |-> Genesis,
     index |-> Genesis :> {statusDataStored, statusValid}]

InitChain ==
    /\ b = GenesisChain
    /\ db = GenesisStore
    /\ chainLock = 0
    /\ loc = [t \in Threads |-> IdleLoc]
    /\ panicked = FALSE
    /\ forced = FALSE
    /\ hist = NoHist
    /\ now = 0

\* one caller at a time; the store may fail
Init ==
    /\ InitChain
    /\ pc = [t \in Threads |-> IF t = 1 THEN "idle" ELSE "off"]
    /\ budget = MaxBlocks
    /\ fails = MaxFails
    /\ fastAdds = MaxFastAdd

\* two concurrent callers; the store does not fail
InitConc ==
    /\ InitChain
    /\ pc = [t \in Threads |-> "idle"]
    /\ budget = MaxBlocksConc
    /\ fails = 0
    /\ fastAdds = 0

\* index.AddNode, as the caller of connectBestChain does it for a block
\* whose parent is in the index; the new entry is persisted
AddNode(r, id, p, w, v) ==
    [r EXCEPT !.b.nodes = @ @@ (id :> [parent |-> p,
                                       height |-> @[p].height + 1,
                                       workSum |-> @[p].workSum + w,
                                       verdict |-> v]),
              !.b.status = @ @@ (id :> {statusDataStored}),
              !.db.index = @ @@ (id :> {statusDataStored})]

Cur(t) == [b |-> b, db |-> db, l |-> loc[t], pc |-> pc[t]]

\* a chainLock that is still held while BlockConnected is sent
LockHeldAtBlockConnected == {"rg_ret", "ret", "cb_ntfn"}

\* the points a step ends at with chainLock held
LockHeldAt == {"rg_ret", "ret"}

\* the history variable after a step that leaves the chain as in r
Recorded(r) ==
    LET before == Len(b.bestChain)
        after == Len(r.b.bestChain)
    IN  IF after = before + 1
        THEN [node |-> Tip(r.b.bestChain), state |-> b.stateSnapshot,
              best |-> db.best, undone |-> FALSE]
        ELSE IF after = before - 1
        THEN IF hist.node = Tip(b.bestChain) /\ ~hist.undone
             THEN [hist EXCEPT !.undone = TRUE]
             ELSE NoHist
        ELSE hist

Commit(t, r, F) ==
    /\ r.l.used = F
    /\ hist' = Recorded(r)
    /\ UNCHANGED now
    /\ b' = r.b
    /\ db' = r.db
    /\ loc' = [loc EXCEPT ![t] = [r.l EXCEPT !.used = {}]]
    /\ pc' = [pc EXCEPT ![t] = r.pc]
    /\ chainLock' = IF r.pc \in LockHeldAt THEN t ELSE 0
    /\ panicked' = (r.pc = "panic")
    /\ fails' = fails - Cardinality(F)

CanLock(t) == chainLock = 0 /\ ~panicked

Failures == {F \in SUBSET FailPoints : Cardinality(F) <= fails}

\* a Reorganization notification built with the old and the new tip
\* exchanged
ReorganizationNtfnsDataSwapped(l) ==
    [OldHash |-> l.newBest, NewHash |-> l.oldBest]

\* the data of the Reorganization notification
ReorganizationNtfnsData(l) ==
    [OldHash |-> l.oldBest, NewHash |-> l.newBest]

\* ---------------------------------------------------------------- actions
\* a caller takes chainLock, adds a new block to the index and runs
\* connectBestChain on it
ProcessBlock(t) ==
    /\ pc[t] = "idle"
    /\ CanLock(t)
    /\ budget > 0
    /\ \E p \in DOMAIN b.nodes, w \in 1..MaxWork, v \in Verdicts,
          fa \in BOOLEAN, F \in Failures, fk \in 0..MaxBlocks :
          /\ fa => fastAdds > 0
          /\ fk > 0 => "fetch" \in F
          /\ LET id == Cardinality(DOMAIN b.nodes)
                 r0 == [Cur(t) EXCEPT !.l = [IdleLoc EXCEPT !.op = "process",
                                                            !.node = id,
                                                            !.fastAdd = fa]]
                 r1 == AddNode(r0, id, p, w, v)
                 r2 == [r1 EXCEPT !.l.pre = [b |-> r1.b, db |-> r1.db]]
             IN  Commit(t, connectBestChain(r2, id, fa, F, fk), F)
          /\ fastAdds' = IF fa THEN fastAdds - 1 ELSE fastAdds
    /\ budget' = budget - 1
    /\ UNCHANGED forced

ForceHeadReorganization(t) ==
    /\ pc[t] = "idle"
    /\ CanLock(t)
    /\ \E formerBest \in DOMAIN b.nodes,
          newBest \in DOMAIN b.nodes \cup {Cardinality(DOMAIN b.nodes)},
          F \in Failures, fk \in 0..1 :
          /\ fk > 0 => "fetch" \in F
          /\ LET r0 == [Cur(t) EXCEPT !.l = [IdleLoc EXCEPT
                                               !.op = "force",
                                               !.former = formerBest,
                                               !.target = newBest,
                                               !.pre = [b |-> b, db |-> db]]]
                 r1 == forceHeadReorganization(r0, formerBest, newBest,
                                               F, fk)
             IN  /\ Commit(t, r1, F)
                 /\ forced' = (forced \/ r1.pc \notin {"ret", "rg_ret"})
    /\ UNCHANGED <<budget, fastAdds>>

\* a notification is sent with chainLock released
SendNotification(t) ==
    /\ ~panicked
    /\ pc[t] \in {"rg_reorg_ntfn", "rg_started_ntfn", "db_ntfn", "cb_ntfn",
                  "rg_done_ntfn"}
    /\ LET l == loc[t]
           held == chainLock = t
           r == Cur(t)
           sent ==
             CASE pc[t] = "rg_reorg_ntfn" ->
                    [sendNotification(r, NTReorganization,
                                      ReorganizationNtfnsData(l).OldHash,
                                      ReorganizationNtfnsData(l).NewHash, held)
                        EXCEPT !.pc = "rg_reorg_lock"]
               [] pc[t] = "rg_started_ntfn" ->
                    [sendNotification(r, NTChainReorgStarted, NoNode, NoNode,
                                      held)
                        EXCEPT !.pc = "rg_started_lock"]
               [] pc[t] = "db_ntfn" ->
                    [sendNotification(r, NTBlockDisconnected, l.cur,
                                      b.nodes[l.cur].parent, held)
                        EXCEPT !.pc = "db_lock"]
               [] pc[t] = "cb_ntfn" ->
                    [sendNotification(r, NTBlockConnected, l.cur,
                                      b.nodes[l.cur].parent, held)
                        EXCEPT !.pc = "cb_lock"]
               [] pc[t] = "rg_done_ntfn" ->
                    [sendNotification(r, NTChainReorgDone, NoNode, NoNode,
                                      held)
                        EXCEPT !.pc = "rg_done_lock"]
       IN  /\ loc' = [loc EXCEPT ![t] = sent.l]
           /\ pc' = [pc EXCEPT ![t] = sent.pc]
    /\ UNCHANGED <<b, db, chainLock, panicked, budget, fails,
                 fastAdds, forced, hist, now>>

\* chainLock is taken and released again between the Reorganization and the
\* ChainReorgStarted notifications
ReorgRelock(t) ==
    /\ pc[t] = "rg_reorg_lock"
    /\ CanLock(t)
    /\ pc' = [pc EXCEPT ![t] = "rg_started_ntfn"]
    /\ UNCHANGED <<b, db, chainLock, loc, panicked, budget, fails,
                 fastAdds, forced, hist, now>>

\* chainLock is taken again and the second pass of reorganizeChain starts
ReorgCommit(t) ==
    /\ pc[t] = "rg_started_lock"
    /\ CanLock(t)
    /\ \E F \in Failures : Commit(t, reorganizeStep(Cur(t), F), F)
    /\ UNCHANGED <<budget, fastAdds, forced>>

\* disconnectBlock takes chainLock again, finishes, and reorganizeChain goes on
DisconnectBlockResume(t) ==
    /\ pc[t] = "db_lock"
    /\ CanLock(t)
    /\ \E F \in Failures :
          Commit(t, reorganizeStep(
                        disconnectBlockFinish(Cur(t), loc[t].cur), F), F)
    /\ UNCHANGED <<budget, fastAdds, forced>>

\* connectBlock takes chainLock again, finishes, and its caller goes on
ConnectBlockResume(t) ==
    /\ pc[t] = "cb_lock"
    /\ CanLock(t)
    /\ \E F \in Failures :
          LET r1 == connectBlockFinish(Cur(t), loc[t].cur, F)
              r2 == IF r1.l.inReorg
                    THEN IF r1.l.err # "nil"
                         THEN [r1 EXCEPT !.pc = "rg_done_ntfn"]
                         ELSE reorganizeStep(r1, F)
                    ELSE [r1 EXCEPT !.pc = "ret"]
          IN  Commit(t, r2, F)
    /\ UNCHANGED <<budget, fastAdds, forced>>

\* the deferred ChainReorgDone is sent, chainLock is taken again and
\* reorganizeChain returns
ReorgReturn(t) ==
    /\ pc[t] = "rg_done_lock"
    /\ CanLock(t)
    /\ pc' = [pc EXCEPT ![t] = "rg_ret"]
    /\ chainLock' = t
    /\ UNCHANGED <<b, db, loc, panicked, budget, fails,
                 fastAdds, forced, hist, now>>

\* the caller of reorganizeChain flushes the block index, warn only, and
\* returns
AfterReorganize(t) ==
    /\ pc[t] = "rg_ret"
    /\ ~panicked
    /\ \E F \in Failures :
          Commit(t, [flushBlockIndexWarnOnly(Cur(t), F) EXCEPT !.pc = "ret"],
                 F)
    /\ UNCHANGED <<budget, fastAdds, forced>>

\* the call is over: the caller releases chainLock
Return(t) ==
    /\ pc[t] = "ret"
    /\ ~panicked
    /\ pc' = [pc EXCEPT ![t] = "idle"]
    /\ loc' = [loc EXCEPT ![t] = IdleLoc]
    /\ chainLock' = 0
    /\ UNCHANGED <<b, db, panicked, budget, fails,
                 fastAdds, forced, hist, now>>

Next ==
    \E t \in Threads :
        \/ ProcessBlock(t)
        \/ ForceHeadReorganization(t)
        \/ SendNotification(t)
        \/ ReorgRelock(t)
        \/ ReorgCommit(t)
        \/ DisconnectBlockResume(t)
        \/ ConnectBlockResume(t)
        \/ ReorgReturn(t)
        \/ AfterReorganize(t)
        \/ Return(t)

Spec == Init /\ [][Next]_vars

\* ------------------------------------------- a long chain, step by step
\* An index that holds a chain of MaxCacheHeight blocks on the genesis block
\* (the block at height h is node h) and, at each height, a sibling of that
\* block (node MaxCacheHeight + h), all stored and valid; the tip is the
\* genesis block. One caller connects and disconnects blocks at the tip; the
\* store does not fail.
CacheNodes ==
    [n \in 0..(2 * MaxCacheHeight) |->
        IF n = Genesis
        THEN [parent |-> NoNode, height |-> 0, workSum |-> 1, verdict |-> "ok"]
        ELSE IF n <= MaxCacheHeight
        THEN [parent |-> n - 1, height |-> n, workSum |-> n + 1,
              verdict |-> "ok"]
        ELSE [parent |-> n - MaxCacheHeight - 1, height |-> n - MaxCacheHeight,
              workSum |-> n - MaxCacheHeight + 1, verdict |-> "ok"]]

InitCache ==
    /\ b = [nodes |-> CacheNodes,
            status |-> [n \in DOMAIN CacheNodes |->
                          {statusDataStored, statusValid}],
            modified |-> {},
            bestChain |-> <<Genesis>>,
            stateSnapshot |-> GenesisState,
            mainchainBlockCache |-> {},
            orphans |-> <<>>,
            prevOrphans |-> <<>>,
            oldestOrphan |-> NoOrphan]
    /\ db = [best |-> [state |-> GenesisState, workSum |-> 1],
             utxo |-> {Genesis},
             journal |-> {},
             stake |-> Genesis,
             index |-> [n \in DOMAIN CacheNodes |->
                          {statusDataStored, statusValid}]]
    /\ chainLock = 0
    /\ loc = [t \in Threads |-> IdleLoc]
    /\ pc = [t \in Threads |-> IF t = 1 THEN "idle" ELSE "off"]
    /\ panicked = FALSE
    /\ forced = FALSE
    /\ hist = NoHist
    /\ now = 0
    /\ budget = 0
    /\ fails = 0
    /\ fastAdds = 0

\* a whole connectBlock of a child of the tip, its notification included
ConnectTip(t) ==
    /\ pc[t] = "idle"
    /\ CanLock(t)
    /\ \E n \in DOMAIN b.nodes :
          /\ b.nodes[n].parent = Tip(b.bestChain)
          /\ LET r0 == [Cur(t) EXCEPT
                          !.l = [IdleLoc EXCEPT
                                   !.op = "connect",
                                   !.view = connectTransactions(
                                                NewUtxoViewpoint, n)]]
                 r1 == connectBlockCommit(r0, n, {})
                 r2 == sendNotification(r1, NTBlockConnected, n,
                                        b.nodes[n].parent, FALSE)
                 r3 == connectBlockFinish(r2, n, {})
             IN  Commit(t, r3, {})
    /\ UNCHANGED <<budget, fastAdds, forced>>

\* a whole disconnectBlock of the tip, its notification included
DisconnectTip(t) ==
    /\ pc[t] = "idle"
    /\ CanLock(t)
    /\ Tip(b.bestChain) # Genesis
    /\ LET n == Tip(b.bestChain)
           r0 == [Cur(t) EXCEPT
                    !.l = [IdleLoc EXCEPT
                             !.op = "disconnect",
                             !.view = disconnectTransactions(
                                          NewUtxoViewpoint, n)]]
           r1 == disconnectBlockCommit(r0, n, {})
           r2 == sendNotification(r1, NTBlockDisconnected, n,
                                  b.nodes[n].parent, FALSE)
           r3 == disconnectBlockFinish(r2, n)
       IN  Commit(t, r3, {})
    /\ UNCHANGED <<budget, fastAdds, forced>>

\* the blocks a peer's locator may have been built for: the tip (a nil
\* node), the tip's parent, the genesis block
LocatorNodes == {NoNode, Genesis} \cup {b.nodes[Tip(b.bestChain)].parent}

\* the locators a peer may send: none, or one that BlockLocatorFromHash or
\* LatestBlockLocator built
Locators ==
    {<<>>} \cup {BlockLocator(b.nodes, b.bestChain, n) : n \in LocatorNodes}

\* the hashes a peer may name as the stop hash: the tip, its parent, the
\* zero hash
StopHashes == {Tip(b.bestChain), b.nodes[Tip(b.bestChain)].parent, NoNode}

\* LocateBlocks: a peer sends a locator, a stop hash and the most hashes it
\* wants; locateBlocks resolves them under chainLock
LocateBlocksOf(t, locators, stopHashes, maxima) ==
    /\ pc[t] = "idle"
    /\ CanLock(t)
    /\ \E locator \in locators, hashStop \in stopHashes,
          maxEntries \in maxima :
          LET res == locateBlocks(b, locator, hashStop, maxEntries)
          IN  /\ loc' = [loc EXCEPT ![t] =
                    [IdleLoc EXCEPT
                       !.op = "LocateBlocks",
                       !.err = res.err,
                       !.q = [locator |-> locator,
                              hashStop |-> hashStop,
                              maxEntries |-> maxEntries,
                              tip |-> Tip(b.bestChain),
                              found |-> locateInventory(b, locator, hashStop,
                                                        maxEntries),
                              hashes |-> res.hashes]]]
              /\ pc' = [pc EXCEPT ![t] = IF res.err = "nilDereference"
                                         THEN "panic" ELSE "idle"]
              /\ panicked' = (res.err = "nilDereference")
    /\ UNCHANGED <<b, db, chainLock, budget, fails, fastAdds, forced, hist,
                   now>>

\* LocateBlocks as a peer that follows the protocol calls it
LocateBlocks(t) == LocateBlocksOf(t, Locators, StopHashes, 1..MaxEntries)

NextCache ==
    \E t \in Threads :
        \/ ConnectTip(t)
        \/ DisconnectTip(t)
        \/ LocateBlocks(t)

SpecCache == InitCache /\ [][NextCache]_vars

\* ------------------------------------------- any request for inventory
\* a hash of no block of the index
UnknownHash == 2 * MaxCacheHeight + 1

\* the blocks of the index on the tip: they are not in the main chain and
\* are above it
TipChildren == {n \in DOMAIN b.nodes : b.nodes[n].parent = Tip(b.bestChain)}

\* the locators any peer may send: those above, or one of a hash that is
\* not in the main chain
AnyLocators == Locators \cup {<<n>> : n \in TipChildren \cup {UnknownHash}}

\* the stop hashes any peer may name: those above, a block on the tip, a
\* hash of no block
AnyStopHashes == StopHashes \cup TipChildren \cup {UnknownHash}

\* LocateBlocks as any peer may call it
LocateBlocksAny(t) ==
    LocateBlocksOf(t, AnyLocators, AnyStopHashes, 0..MaxEntries)

\* a connectBlock of a child of the tip while the chain is short
ConnectTipLow(t) ==
    /\ b.nodes[Tip(b.bestChain)].height < MaxLocateHeight
    /\ ConnectTip(t)

NextLocate ==
    \E t \in Threads :
        \/ ConnectTipLow(t)
        \/ DisconnectTip(t)
        \/ LocateBlocksAny(t)

SpecLocate == InitCache /\ [][NextLocate]_vars

\* ------------------------------------------------- the orphan pool, full
\* The pool after maxOrphanBlocks - 1 blocks were added to it, the block
\* named h at second h: every orphan is in its list of b.prevOrphans in the
\* order of arrival, and the loops of addOrphanBlock have left the first
\* orphan in b.oldestOrphan.
FirstOrphans == 1..(maxOrphanBlocks - 1)

OrphanAddedAt(h) == [hash |-> h, expiration |-> h + Hour]

\* the orphans named by hashes, in the order they were added
InOrder(hashes) ==
    [i \in 1..Cardinality(hashes) |->
        OrphanAddedAt(CHOOSE h \in hashes :
                        Cardinality({g \in hashes : g <= h}) = i)]

InitOrphan ==
    /\ b = [nodes |-> Genesis :> [parent |-> NoNode, height |-> 0,
                                  workSum |-> 1, verdict |-> "ok"],
            status |-> Genesis :> {statusDataStored, statusValid},
            modified |-> {},
            bestChain |-> <<Genesis>>,
            stateSnapshot |-> GenesisState,
            mainchainBlockCache |-> {},
            orphans |-> [h \in FirstOrphans |-> OrphanAddedAt(h)],
            prevOrphans |-> [p \in {PrevBlock(h) : h \in FirstOrphans} |->
                               InOrder({h \in FirstOrphans :
                                            PrevBlock(h) = p})],
            oldestOrphan |-> OrphanAddedAt(1)]
    /\ db = [best |-> [state |-> GenesisState, workSum |-> 1],
             utxo |-> {Genesis},
             journal |-> {},
             stake |-> Genesis,
             index |-> Genesis :> {statusDataStored, statusValid}]
    /\ chainLock = 0
    /\ loc = [t \in Threads |-> IdleLoc]
    /\ panicked = FALSE
    /\ forced = FALSE
    /\ hist = NoHist
    /\ now = maxOrphanBlocks - 1
    /\ pc = [t \in Threads |-> IF t = 1 THEN "idle" ELSE "off"]
    /\ budget = MaxOrphanAdds
    /\ fails = 0
    /\ fastAdds = 0

\* blocks addOrphanBlock may be called with: blocks not seen before and
\* the first two blocks of the pool
NewOrphans == maxOrphanBlocks..(maxOrphanBlocks + MaxNewOrphans - 1)

OrphanCandidates == NewOrphans \cup {1, 2}

\* orphanLock, a sync.RWMutex: it is free when no call holds its read lock
\* (the calls that take the write lock are single steps)
OrphanLockFree == \A u \in Threads : pc[u] # "or_loop"

\* the caller has found a block among candidates to be an orphan and adds it
\* to the pool
AddOrphanBlockOf(t, candidates) ==
    /\ pc[t] = "idle"
    /\ CanLock(t)
    /\ OrphanLockFree
    /\ budget > 0
    /\ budget' = budget - 1
    /\ \E hash \in candidates, oldest \in OldestAfterLoop(b, now) :
          /\ b' = addOrphanBlock(b, hash, now, oldest)
          /\ loc' = [loc EXCEPT ![t] =
                        [IdleLoc EXCEPT !.op = "addOrphanBlock",
                                        !.node = hash,
                                        !.pre = [b |-> b, db |-> db,
                                                 now |-> now]]]
    /\ UNCHANGED <<db, chainLock, pc, panicked, fails, fastAdds, forced,
                   hist, now>>

AddOrphanBlock(t) == AddOrphanBlockOf(t, OrphanCandidates)

\* the parent of an orphan among candidates has arrived: the orphan leaves
\* the pool
RemoveOrphanBlockOf(t, candidates) ==
    /\ pc[t] = "idle"
    /\ CanLock(t)
    /\ OrphanLockFree
    /\ \E hash \in DOMAIN b.orphans \cap candidates :
          /\ b' = removeOrphanBlock(b, b.orphans[hash])
          /\ loc' = [loc EXCEPT ![t] =
                        [IdleLoc EXCEPT !.op = "removeOrphanBlock",
                                        !.node = hash,
                                        !.pre = [b |-> b, db |-> db,
                                                 now |-> now]]]
    /\ UNCHANGED <<db, chainLock, pc, panicked, budget, fails, fastAdds,
                   forced, hist, now>>

RemoveOrphanBlock(t) == RemoveOrphanBlockOf(t, OrphanCandidates)

\* time passes: a second, or an hour
Tick ==
    /\ now < maxOrphanBlocks - 1 + MaxTicks
    /\ \E d \in {1, Hour} : now' = now + d
    /\ UNCHANGED <<b, db, chainLock, pc, loc, panicked, budget, fails,
                   fastAdds, forced, hist>>

NextOrphan ==
    \/ \E t \in Threads : AddOrphanBlock(t)
    \/ \E t \in Threads : RemoveOrphanBlock(t)
    \/ Tick

SpecOrphan == InitOrphan /\ [][NextOrphan]_vars

\* ------------------------------------------- a chain that is pruned
\* the heights of the tip a run starts at: one below the least height at
\* which pruneStakeNodes finds a node to list, and one below the least
\* height at which it finds a listed node too old to touch
PruneTips == {minMemoryStakeNodes - 2, minMemoryNodes - 1}

MaxPruneHeight == minMemoryNodes - 1 + MaxPruneBlocks

\* the heights of the side chain blocks: the lowest, and the height of the
\* highest main chain node a run clears
SideHeights == {1, minMemoryNodes + 1 - minMemoryStakeNodes}

\* An index that holds a chain of MaxPruneHeight blocks on the genesis block
\* (the block at height h is node h) and a sibling of the main chain block
\* at each of SideHeights (node MaxPruneHeight + h), all stored and valid,
\* each with its stake data in memory
PruneNodes ==
    [n \in 0..MaxPruneHeight \cup {MaxPruneHeight + h : h \in SideHeights} |->
        IF n <= MaxPruneHeight
        THEN WithStake([parent |-> IF n = Genesis THEN NoNode ELSE n - 1,
                        height |-> n, workSum |-> n + 1, verdict |-> "ok"],
                       <<n>>)
        ELSE WithStake([parent |-> n - MaxPruneHeight - 1,
                        height |-> n - MaxPruneHeight,
                        workSum |-> n - MaxPruneHeight + 1,
                        verdict |-> "ok"], <<n>>)]

\* the best state of the main chain block at height h: the blocks up to it
\* have h + 1 + (h + 1) \div 2 transactions
PruneState(h) ==
    newBestState(PruneNodes, h, countNumberOfTransactions(h),
                 h + 1 + ((h + 1) \div 2))

\* the main chain was connected up to one of PruneTips, and no stake data
\* was pruned
InitPrune ==
    /\ \E h \in PruneTips :
          /\ b = [nodes |-> PruneNodes,
                  status |-> [n \in DOMAIN PruneNodes |->
                                {statusDataStored, statusValid}],
                  modified |-> {},
                  bestChain |-> [i \in 1..(h + 1) |-> i - 1],
                  stateSnapshot |-> PruneState(h),
                  mainchainBlockCache |->
                      (h - mainchainBlockCacheSize + 1)..h,
                  orphans |-> <<>>,
                  prevOrphans |-> <<>>,
                  oldestOrphan |-> NoOrphan]
          /\ db = [best |-> [state |-> PruneState(h), workSum |-> h + 1],
                   utxo |-> 0..h,
                   journal |-> 1..h,
                   stake |-> h,
                   index |-> [n \in DOMAIN PruneNodes |->
                                {statusDataStored, statusValid}]]
    /\ chainLock = 0
    /\ loc = [t \in Threads |-> IdleLoc]
    /\ pc = [t \in Threads |-> IF t = 1 THEN "idle" ELSE "off"]
    /\ panicked = FALSE
    /\ forced = FALSE
    /\ hist = NoHist
    /\ now = 0
    /\ budget = 0
    /\ fails = 0
    /\ fastAdds = 0

\* a connectBlock of the next block, up to MaxPruneBlocks above the start
ConnectTipPrune(t) ==
    /\ \A h \in PruneTips :
          b.nodes[Tip(b.bestChain)].height # h + MaxPruneBlocks
    /\ ConnectTip(t)

\* a disconnectBlock of the tip, down to the start
DisconnectTipPrune(t) ==
    /\ b.nodes[Tip(b.bestChain)].height \notin PruneTips
    /\ DisconnectTip(t)

\* the caller holds chainLock and prunes the stake data
PruneStakeNodes(t) ==
    /\ pc[t] = "idle"
    /\ CanLock(t)
    /\ b' = pruneStakeNodes(b)
    /\ loc' = [loc EXCEPT ![t] =
                  [IdleLoc EXCEPT !.op = "pruneStakeNodes",
                                  !.pre = [b |-> b, db |-> db]]]
    /\ UNCHANGED <<db, chainLock, pc, panicked, budget, fails, fastAdds,
                   forced, hist, now>>

NextPrune ==
    \E t \in Threads :
        \/ ConnectTipPrune(t)
        \/ DisconnectTipPrune(t)
        \/ PruneStakeNodes(t)

SpecPrune == InitPrune /\ [][NextPrune]_vars

\* ------------------------------------------- orphans of orphans
\* blocks each of which, but the last, has the next one as its previous
\* block; the previous block of the last is none of them
LinkedOrphans == {9, -6, 1, -2}

\* the pool is empty; thread 1 adds and removes orphans, thread 2 asks for
\* the root of an orphan
InitRoot ==
    /\ InitChain
    /\ pc = [t \in Threads |-> IF t = 1 THEN "idle" ELSE "query"]
    /\ budget = MaxRootAdds
    /\ fails = 0
    /\ fastAdds = 0

AddLinkedOrphan(t) == AddOrphanBlockOf(t, LinkedOrphans)

RemoveLinkedOrphan(t) == RemoveOrphanBlockOf(t, LinkedOrphans)

\* GetOrphanRoot takes the read lock of orphanLock and sets out from hash
GetOrphanRootStart(t) ==
    /\ pc[t] = "query"
    /\ ~panicked
    /\ \E hash \in LinkedOrphans :
          loc' = [loc EXCEPT ![t] =
                    [IdleLoc EXCEPT
                       !.op = "GetOrphanRoot",
                       !.node = hash,
                       !.q = [orphanRoot |-> hash,
                              prevHash |-> hash,
                              returned |-> FALSE,
                              result |-> NoNode,
                              pool |-> DOMAIN b.orphans]]]
    /\ pc' = [pc EXCEPT ![t] = "or_loop"]
    /\ UNCHANGED <<b, db, chainLock, panicked, budget, fails, fastAdds,
                   forced, hist, now>>

\* one turn of the loop of GetOrphanRoot, or its return
GetOrphanRootStep(t) ==
    /\ pc[t] = "or_loop"
    /\ ~panicked
    /\ loc' = [loc EXCEPT ![t].q = getOrphanRootStep(b, loc[t].q)]
    /\ pc' = [pc EXCEPT ![t] = IF loc'[t].q.returned THEN "query"
                               ELSE "or_loop"]
    /\ UNCHANGED <<b, db, chainLock, panicked, budget, fails, fastAdds,
                   forced, hist, now>>

NextRoot ==
    \E t \in Threads :
        \/ AddLinkedOrphan(t)
        \/ RemoveLinkedOrphan(t)
        \/ GetOrphanRootStart(t)
        \/ GetOrphanRootStep(t)

\* a GetOrphanRoot that has started goes on: its goroutine is runnable
SpecRoot ==
    /\ InitRoot
    /\ [][NextRoot]_vars
    /\ \A t \in Threads : WF_vars(GetOrphanRootStep(t))

SpecConc == InitConc /\ [][Next]_vars

\* ------------------------------------------- queries beside the callers
\* a whole connectBestChain call for a new block, by a caller that is alone
\* and with a store that does not fail: the chain and the store after it
Processed(r, id, p, w, v) ==
    LET r1 == AddNode([r EXCEPT !.l = IdleLoc, !.pc = "idle"], id, p, w, v)
        r2 == connectBestChain(r1, id, FALSE, {}, 0)
    IN  IF r2.pc = "cb_ntfn" THEN connectBlockFinish(r2, id, {}) ELSE r2

\* The chain after four blocks of work 1 were processed: blocks 1 and 2, which
\* extended the genesis block and are the main chain, then blocks 3, on the
\* genesis block, and 4, on block 3, which have no more work than the tip and
\* were left on their side chain, not validated; v1 and v2 are what the
\* validator is to say of blocks 3 and 4
QueryChain(v1, v2) ==
    Processed(
        Processed(
            Processed(
                Processed([b |-> GenesisChain, db |-> GenesisStore,
                           l |-> IdleLoc, pc |-> "idle"],
                          1, Genesis, 1, "ok"),
                2, 1, 1, "ok"),
            3, Genesis, 1, v1),
        4, 3, 1, v2)

\* the chain with its side chain, the verdicts of blocks 3 and 4 being among
\* vs; thread 1 calls into the chain, thread 2 asks the queries that take no
\* lock or take it for themselves
QueryInit(vs, blocks) ==
    /\ \E v1 \in vs, v2 \in vs :
          /\ b = QueryChain(v1, v2).b
          /\ db = QueryChain(v1, v2).db
    /\ chainLock = 0
    /\ loc = [t \in Threads |-> IdleLoc]
    /\ pc = [t \in Threads |-> IF t = 1 THEN "idle" ELSE "query"]
    /\ panicked = FALSE
    /\ forced = FALSE
    /\ hist = NoHist
    /\ now = 0
    /\ budget = blocks
    /\ fails = 0
    /\ fastAdds = 0

\* the side chain is of blocks that pass validation
InitQuery == QueryInit({"ok"}, MaxQueryBlocks)

\* the side chain is of blocks any of which may fail validation
InitNodes == QueryInit(Verdicts, MaxNodeBlocks)

HeightArgs == (0 - 1)..MaxHeightArg

\* HeightRange checks its arguments and reads the height of the tip; it
\* holds no lock
HeightRangeStart(t) ==
    /\ pc[t] = "query"
    /\ ~panicked
    /\ \E startHeight \in HeightArgs, endHeight \in HeightArgs :
          LET lim == heightRangeLimit(b, startHeight, endHeight)
          IN  /\ loc' = [loc EXCEPT ![t] =
                    [IdleLoc EXCEPT
                       !.op = "HeightRange",
                       !.err = IF lim.returned THEN lim.err ELSE "nil",
                       !.q = [startHeight |-> startHeight,
                              endHeight |-> endHeight,
                              limited |-> IF lim.returned THEN endHeight
                                          ELSE lim.endHeight,
                              returned |-> lim.returned,
                              hashes |-> <<>>,
                              viewAtLimit |-> b.bestChain,
                              viewAtFetch |-> b.bestChain]]]
              /\ pc' = [pc EXCEPT ![t] = IF lim.returned THEN "query"
                                         ELSE "hr_fetch"]
    /\ UNCHANGED <<b, db, chainLock, panicked, budget, fails, fastAdds,
                   forced, hist, now>>

\* HeightRange reads the node below the end height from the view and
\* collects the hashes from it back
HeightRangeFinish(t) ==
    /\ pc[t] = "hr_fetch"
    /\ ~panicked
    /\ LET q == loc[t].q
           res == heightRangeFetch(b, q.startHeight, q.limited)
       IN  /\ loc' = [loc EXCEPT ![t].err = res.err,
                                 ![t].q.returned = TRUE,
                                 ![t].q.hashes = res.hashes,
                                 ![t].q.viewAtFetch = b.bestChain]
           /\ pc' = [pc EXCEPT ![t] = IF res.err = "nilDereference"
                                      THEN "panic" ELSE "query"]
           /\ panicked' = (res.err = "nilDereference")
    /\ UNCHANGED <<b, db, chainLock, budget, fails, fastAdds, forced, hist,
                   now>>

\* TipGeneration, a whole call: it takes chainLock for itself
TipGenerationCall(t) ==
    /\ pc[t] = "query"
    /\ CanLock(t)
    /\ loc' = [loc EXCEPT ![t] =
                  [IdleLoc EXCEPT
                     !.op = "TipGeneration",
                     !.q = [tip |-> Tip(b.bestChain),
                            hashes |-> TipGeneration(b)]]]
    /\ UNCHANGED <<b, db, chainLock, pc, panicked, budget, fails, fastAdds,
                   forced, hist, now>>

\* getReorganizeNodes alone, for a block of the index, by a caller that holds
\* chainLock for the time of the call
GetReorganizeNodes(t) ==
    /\ pc[t] = "idle"
    /\ CanLock(t)
    /\ \E node \in DOMAIN b.nodes \ {Genesis} :
          LET r0 == [Cur(t) EXCEPT
                       !.l = [IdleLoc EXCEPT !.op = "getReorganizeNodes",
                                             !.node = node,
                                             !.pre = [b |-> b, db |-> db]]]
              g == getReorganizeNodes(r0, node)
          IN  Commit(t, [g[1] EXCEPT !.l.detach = g[2],
                                     !.l.attach = g[3]], {})
    /\ UNCHANGED <<budget, fastAdds, forced>>

NextQuery ==
    \E t \in Threads :
        \/ ProcessBlock(t)
        \/ SendNotification(t)
        \/ ReorgRelock(t)
        \/ ReorgCommit(t)
        \/ DisconnectBlockResume(t)
        \/ ConnectBlockResume(t)
        \/ ReorgReturn(t)
        \/ AfterReorganize(t)
        \/ Return(t)
        \/ HeightRangeStart(t)
        \/ HeightRangeFinish(t)
        \/ TipGenerationCall(t)

NextNodes ==
    \E t \in Threads :
        \/ ProcessBlock(t)
        \/ SendNotification(t)
        \/ ReorgRelock(t)
        \/ ReorgCommit(t)
        \/ DisconnectBlockResume(t)
        \/ ConnectBlockResume(t)
        \/ ReorgReturn(t)
        \/ AfterReorganize(t)
        \/ Return(t)
        \/ GetReorganizeNodes(t)

SpecNodes == InitNodes /\ [][NextNodes]_vars

SpecQuery == InitQuery /\ [][NextQuery]_vars

\* ------------------------------------------- a tip that has a sibling
\* The chain after three blocks of work 1 were processed: blocks 1 and 2, the
\* main chain, and block 3, a child of block 1 as the tip is, which has no
\* more work than the tip and was left unvalidated; v is what the checks of
\* forceHeadReorganization are to say of block 3
ForceChain(v) ==
    Processed(
        Processed(
            Processed([b |-> GenesisChain, db |-> GenesisStore,
                       l |-> IdleLoc, pc |-> "idle"],
                      1, Genesis, 1, "ok"),
            2, 1, 1, "ok"),
        3, 1, 1, v)

\* one caller at a time; the store may fail
InitForce ==
    /\ \E v \in ForceVerdicts :
          /\ b = ForceChain(v).b
          /\ db = ForceChain(v).db
    /\ chainLock = 0
    /\ loc = [t \in Threads |-> IdleLoc]
    /\ pc = [t \in Threads |-> IF t = 1 THEN "idle" ELSE "off"]
    /\ panicked = FALSE
    /\ forced = FALSE
    /\ hist = NoHist
    /\ now = 0
    /\ budget = MaxForceBlocks
    /\ fails = MaxFails
    /\ fastAdds = 0

SpecForce == InitForce /\ [][Next]_vars

\* a call that has started goes on: the goroutine of the caller is runnable
\* at each of these steps, and chainLock is free when it asks for it
Continue(t) ==
    \/ SendNotification(t)
    \/ ReorgRelock(t)
    \/ ReorgCommit(t)
    \/ DisconnectBlockResume(t)
    \/ ConnectBlockResume(t)
    \/ ReorgReturn(t)
    \/ AfterReorganize(t)
    \/ Return(t)

SpecForceFair == SpecForce /\ \A t \in Threads : WF_vars(Continue(t))

\* ================================================================= claims
\* what a call sees of the chain and of the store
TipNode == Tip(b.bestChain)

PreTip(l) == Tip(l.pre.b.bestChain)

Kinds(l) == {l.log[k].kind : k \in 1..Len(l.log)}

ReorgKinds == {NTReorganization, NTChainReorgStarted, NTBlockDisconnected,
               NTBlockConnected, NTChainReorgDone}

\* tip, snapshot, durable best state, UTXO set and spend journal are what
\* they were when the call started
ChainStateAsBefore(l) ==
    /\ TipNode = PreTip(l)
    /\ b.stateSnapshot = l.pre.b.stateSnapshot
    /\ db.best = l.pre.db.best
    /\ db.utxo = l.pre.db.utxo
    /\ db.journal = l.pre.db.journal

\* C1: when reorganizeChain returns a RuleError found by its validation pass,
\* the tip, the BestState snapshot and the durable UTXO set, spend journal and
\* best-state record are those of before the call, and no Reorganization,
\* ChainReorgStarted, BlockDisconnected, BlockConnected or ChainReorgDone
\* notification was sent.
C1_DryRunRuleErrorLeavesChain ==
    \A t \in Threads :
        (pc[t] = "rg_ret" /\ loc[t].err = "RuleError") =>
            /\ ChainStateAsBefore(loc[t])
            /\ b.bestChain = loc[t].pre.b.bestChain
            /\ Kinds(loc[t]) \cap ReorgKinds = {}

\* a reorganization with a block to detach and two to attach, the second of
\* which the validator rejected, has returned
C1_Witness ==
    \E t \in Threads :
        /\ pc[t] = "rg_ret"
        /\ loc[t].err = "RuleError"
        /\ Len(loc[t].detach) >= 1
        /\ Len(loc[t].attach) >= 2
        /\ statusValid \in b.status[loc[t].attach[1]]
        /\ statusValidateFailed \in b.status[loc[t].attach[2]]

\* C2 as stated: however reorganizeChain fails, the tip and the durable best
\* state, UTXO set and spend journal are those of before the call.
C2_AnyErrorLeavesChain ==
    \A t \in Threads :
        (pc[t] = "rg_ret" /\ loc[t].err # "nil") =>
            /\ TipNode = PreTip(loc[t])
            /\ db.best = loc[t].pre.db.best
            /\ db.utxo = loc[t].pre.db.utxo
            /\ db.journal = loc[t].pre.db.journal

\* the node that is the tip once i detach nodes were disconnected and j
\* attach nodes connected
TipAfterSteps(l) ==
    IF l.j > 0 THEN l.attach[l.j]
    ELSE IF l.i > 0 THEN b.nodes[l.detach[l.i]].parent
    ELSE l.oldBest

\* C2 amended: a reorganizeChain that fails before its second pass leaves the
\* tip and the durable best state, UTXO set and spend journal as before the
\* call; one that fails in the second pass leaves them as the last completed
\* disconnectBlock or connectBlock left them: on the path from the old tip
\* to the new, and all four describing the same chain.
C2_ErrorLeavesLastCompletedStep ==
    \A t \in Threads :
        (pc[t] = "rg_ret" /\ loc[t].err # "nil") =>
            LET l == loc[t]
                chainSet == SeqToSet(b.bestChain)
            IN  /\ (NTChainReorgStarted \notin Kinds(l)) =>
                        /\ ChainStateAsBefore(l)
                        /\ l.i = 0 /\ l.j = 0
                /\ TipNode = TipAfterSteps(l)
                /\ db.best.state.Hash = TipNode
                /\ db.best.state = b.stateSnapshot
                /\ db.utxo = chainSet
                /\ db.journal = chainSet \ {Genesis}

\* a reorganization failed in its second pass after a block was disconnected
C2_Witness ==
    \E t \in Threads :
        /\ pc[t] = "rg_ret"
        /\ loc[t].err = "StoreError"
        /\ loc[t].i >= 1
        /\ TipNode # PreTip(loc[t])

\* the call is connectBestChain of a side chain block heavier than the tip,
\* and it returned the RuleError of the validation pass
DryRunRejected(t) ==
    /\ pc[t] = "ret"
    /\ loc[t].op = "process"
    /\ loc[t].err = "RuleError"
    /\ b.nodes[loc[t].node].parent # PreTip(loc[t])
    /\ b.nodes[loc[t].node].workSum > b.nodes[PreTip(loc[t])].workSum

\* C3 as stated: such a call writes nothing to the store, the block index
\* included.
C3_NoWriteAtAll ==
    \A t \in Threads :
        DryRunRejected(t) => /\ loc[t].wr = {}
                             /\ db = loc[t].pre.db

\* C3 amended: such a call writes no best state, UTXO, spend journal or stake
\* data; its only write is the flush of block index entries to their current
\* status.
C3_OnlyIndexFlush ==
    \A t \in Threads :
        DryRunRejected(t) =>
            /\ loc[t].wr \subseteq {"index"}
            /\ db.best = loc[t].pre.db.best
            /\ db.utxo = loc[t].pre.db.utxo
            /\ db.journal = loc[t].pre.db.journal
            /\ db.stake = loc[t].pre.db.stake
            /\ \A n \in DOMAIN db.index :
                    db.index[n] # loc[t].pre.db.index[n] =>
                        db.index[n] = b.status[n]

\* the rejected call flushed the ValidateFailed status to the store
C3_Witness ==
    \E t \in Threads :
        /\ DryRunRejected(t)
        /\ "index" \in loc[t].wr
        /\ \E n \in DOMAIN db.index :
               /\ statusValidateFailed \in db.index[n]
               /\ statusValidateFailed \notin loc[t].pre.db.index[n]

\* C4 as stated: with callers serialized by chainLock, no interleaving of
\* them makes connectBlock, disconnectBlock or reorganizeChain find the tip
\* other than the one it asserts.
C4_NoTipAssertionFails == ~panicked

\* the kinds of l.log that are in ks, in the order sent
RECURSIVE LogOf(_, _)
LogOf(log, ks) ==
    IF log = <<>> THEN <<>>
    ELSE IF Head(log).kind \in ks
    THEN <<[kind |-> Head(log).kind, a |-> Head(log).a, b |-> Head(log).b]>>
             \o LogOf(Tail(log), ks)
    ELSE LogOf(Tail(log), ks)

Ntfn(kind, x, y) == [kind |-> kind, a |-> x, b |-> y]

\* the notifications a reorganization from oldBest over detach and attach is
\* to send
ReorgNtfns(oldBest, detach, attach) ==
    <<Ntfn(NTReorganization, oldBest, attach[Len(attach)]),
      Ntfn(NTChainReorgStarted, NoNode, NoNode)>>
    \o [k \in 1..Len(detach) |->
            Ntfn(NTBlockDisconnected, detach[k], b.nodes[detach[k]].parent)]
    \o [k \in 1..Len(attach) |->
            Ntfn(NTBlockConnected, attach[k], b.nodes[attach[k]].parent)]
    \o <<Ntfn(NTChainReorgDone, NoNode, NoNode)>>

\* C5: a reorganizeChain that succeeds with blocks to detach and to attach
\* sends Reorganization (old tip, last attach node), ChainReorgStarted, one
\* BlockDisconnected per detach node from the old tip down, one
\* BlockConnected per attach node from the fork point up, and
\* ChainReorgDone, in this order and no other of these kinds.
C5_ReorgNotificationOrder ==
    \A t \in Threads :
        (/\ pc[t] = "rg_ret"
         /\ loc[t].err = "nil"
         /\ loc[t].detach # <<>>
         /\ loc[t].attach # <<>>) =>
            LET l == loc[t]
            IN  /\ LogOf(l.log, ReorgKinds)
                        = ReorgNtfns(l.oldBest, l.detach, l.attach)
                /\ l.oldBest = PreTip(l)
                /\ \A k \in 1..(Len(l.detach) - 1) :
                        b.nodes[l.detach[k]].height
                            > b.nodes[l.detach[k + 1]].height
                /\ \A k \in 1..(Len(l.attach) - 1) :
                        b.nodes[l.attach[k]].height
                            < b.nodes[l.attach[k + 1]].height

\* a reorganization that detached one block and attached two has returned
C5_Witness ==
    \E t \in Threads :
        /\ pc[t] = "rg_ret"
        /\ loc[t].err = "nil"
        /\ Len(loc[t].detach) >= 1
        /\ Len(loc[t].attach) >= 2
        /\ TipNode = loc[t].attach[Len(loc[t].attach)]

\* whether a node of the sequence ns is known invalid by the statuses st
AnyKnownInvalid(st, ns) == \E k \in 1..Len(ns) : KnownInvalid(st[ns[k]])

\* the call of thread t is a connectBestChain that returned no error, for a
\* node heavier than the tip was, with no known invalid node on its branch
HeavierCleanConnected(t) ==
    LET l == loc[t]
        nd == b.nodes
        fork == FindFork(nd, l.pre.b.bestChain, l.node)
    IN  /\ pc[t] = "ret"
        /\ l.op = "process"
        /\ l.err = "nil"
        /\ nd[l.node].workSum > nd[PreTip(l)].workSum
        /\ ~AnyKnownInvalid(l.pre.b.status, WalkBack(nd, l.node, fork))
        /\ \A k \in DOMAIN WalkBack(nd, l.node, fork) :
                nd[WalkBack(nd, l.node, fork)[k]].verdict = "ok"
                    \/ KnownValid(l.pre.b.status[WalkBack(nd, l.node, fork)[k]])

\* C6: when connectBestChain returns no error for a node heavier than the
\* tip, whose branch back to the fork point has no known invalid node and
\* whose attach blocks pass validation, the tip is that node and the view
\* holds at every height up to the node's the node's ancestor at that height.
C6_HeavierNodeBecomesTip ==
    \A t \in Threads :
        HeavierCleanConnected(t) =>
            /\ TipNode = loc[t].node
            /\ b.bestChain = Reverse(WalkBack(b.nodes, loc[t].node, NoNode))
            /\ \A h \in 0..b.nodes[loc[t].node].height :
                    b.nodes[b.bestChain[h + 1]].height = h

\* a heavier side chain of two blocks replaced a main chain block
C6_Witness ==
    \E t \in Threads :
        /\ HeavierCleanConnected(t)
        /\ Len(loc[t].attach) >= 2
        /\ Len(loc[t].detach) >= 1
        /\ PreTip(loc[t]) \notin SeqToSet(b.bestChain)

\* no call is in progress
AtRest == \A t \in Threads : pc[t] \in {"idle", "off"}

\* the node and its ancestors, none of which is known invalid
RECURSIVE NotKnownInvalid(_)
NotKnownInvalid(n) ==
    \/ n = NoNode
    \/ /\ ~KnownInvalid(b.status[n])
       /\ NotKnownInvalid(b.nodes[n].parent)

TipHasMostWork ==
    \A n \in DOMAIN b.nodes :
        NotKnownInvalid(n) => b.nodes[n].workSum <= b.nodes[TipNode].workSum

InertSideChain(t) ==
    /\ pc[t] = "ret"
    /\ loc[t].op = "process"
    /\ b.nodes[loc[t].node].parent # PreTip(loc[t])
    /\ b.nodes[loc[t].node].workSum <= b.nodes[PreTip(loc[t])].workSum

\* C8: connectBestChain of a node whose parent is not the tip and whose
\* cumulative work is at most the tip's leaves the tip, the view, the
\* BestState snapshot, the main chain block cache and the store as they
\* were, sends no notification, and returns as fork length the node's
\* height minus the height of the fork point.
C8_InertSideChain ==
    \A t \in Threads :
        InertSideChain(t) =>
            LET l == loc[t]
            IN  /\ b = l.pre.b
                /\ db = l.pre.db
                /\ l.wr = {}
                /\ l.log = <<>>
                /\ l.err = "nil"
                /\ l.forkLen = b.nodes[l.node].height
                        - b.nodes[FindFork(b.nodes, b.bestChain, l.node)].height
                /\ l.forkLen >= 1

\* a side chain block of the tip's work, on a side chain block, was left
\* inert: the fork length is two
C8_Witness ==
    \E t \in Threads :
        /\ InertSideChain(t)
        /\ b.nodes[loc[t].node].workSum = b.nodes[TipNode].workSum
        /\ loc[t].forkLen = 2

\* C9: every node in the view of the best chain has the Valid status.
C9_BestChainNodesValid ==
    \A k \in 1..Len(b.bestChain) : statusValid \in b.status[b.bestChain[k]]

\* a reorganization connected a block that was validated by it
C9_Witness ==
    \E t \in Threads :
        /\ pc[t] = "rg_ret"
        /\ loc[t].err = "nil"
        /\ loc[t].attach # <<>>
        /\ \E k \in 1..Len(loc[t].attach) :
               /\ loc[t].attach[k] \in SeqToSet(b.bestChain)
               /\ statusValid \notin loc[t].pre.b.status[loc[t].attach[k]]

\* the strict ancestors of n
RECURSIVE Ancestors(_)
Ancestors(n) ==
    IF b.nodes[n].parent = NoNode THEN {}
    ELSE {b.nodes[n].parent} \cup Ancestors(b.nodes[n].parent)

\* d has an ancestor that the statuses st mark ValidateFailed
UnderFailed(st, d) ==
    \E n \in Ancestors(d) : statusValidateFailed \in st[n]

\* C10: once a node is marked ValidateFailed it stays so, and no descendant
\* of it is marked Valid or is in the view of the best chain, in that state
\* or after any later step.
C10_NoValidUnderFailed ==
    /\ [](\A d \in DOMAIN b.nodes :
            UnderFailed(b.status, d) =>
                /\ statusValid \notin b.status[d]
                /\ d \notin SeqToSet(b.bestChain))
    /\ [][\A d \in DOMAIN b.nodes :
            UnderFailed(b.status, d) =>
                /\ UnderFailed(b'.status, d)
                /\ statusValid \notin b'.status[d]
                /\ d \notin SeqToSet(b'.bestChain)]_vars

\* a call for a heavier block on a block marked ValidateFailed has returned
\* and the block is in the index, marked InvalidAncestor
C10_Witness ==
    \E t \in Threads :
        /\ pc[t] = "ret"
        /\ loc[t].op = "process"
        /\ statusValidateFailed
              \in loc[t].pre.b.status[b.nodes[loc[t].node].parent]
        /\ b.nodes[loc[t].node].workSum > b.nodes[TipNode].workSum
        /\ b.nodes[loc[t].node].verdict = "ok"
        /\ statusInvalidAncestor \in b.status[loc[t].node]

\* C11: a connectBlock of a node followed by the disconnectBlock of the same
\* node restores the best-state record of the store, the stored work sum
\* included, and every field of the BestState snapshot to what they were
\* before the connect.
C11_ConnectDisconnectRestoresBestState ==
    hist.undone =>
        /\ b.stateSnapshot = hist.state
        /\ db.best = hist.best

\* what the pair does restore: the block the best state names and the total
\* number of transactions
C11_RestoresTipAndTotals ==
    hist.undone =>
        /\ b.stateSnapshot.Hash = hist.state.Hash
        /\ b.stateSnapshot.PrevHash = hist.state.PrevHash
        /\ b.stateSnapshot.Height = hist.state.Height
        /\ b.stateSnapshot.TotalTxns = hist.state.TotalTxns
        /\ db.best.state = b.stateSnapshot

\* C12: whenever chainLock is free, so that no caller is in the middle of a
\* tip transition, the BestState snapshot names the tip of the chain view
\* (Hash and Height are the tip's, PrevHash is the hash of the tip's parent
\* and the zero hash for the genesis block) and the best-state record of the
\* store names the same block.
C12_SnapshotNamesTip ==
    chainLock = 0 =>
        /\ b.stateSnapshot.Hash = TipNode
        /\ b.stateSnapshot.Height = b.nodes[TipNode].height
        /\ b.stateSnapshot.Height = Len(b.bestChain) - 1
        /\ b.stateSnapshot.PrevHash =
               (IF TipNode = Genesis THEN NoNode ELSE b.nodes[TipNode].parent)
        /\ db.best.state.Hash = TipNode

\* chainLock is free between a disconnectBlock and a connectBlock of a
\* reorganization, with a tip that is not the genesis block
C12_Witness ==
    /\ chainLock = 0
    /\ \E t \in Threads : pc[t] = "db_lock" /\ loc[t].attach # <<>>
    /\ TipNode # Genesis

\* a connectBlock or disconnectBlock of thread t has just returned the error
\* of its block-index flush or of its store transaction
StepFailed(t) ==
    /\ loc[t].failed # <<>>
    /\ \/ pc[t] = "rg_done_ntfn"
       \/ pc[t] = "ret" /\ ~loc[t].inReorg

\* C13: when the block-index flush or the atomic store transaction of a
\* connectBlock or disconnectBlock fails, the function returns the error with
\* the tip of the chain view, the BestState snapshot and the main-chain block
\* cache as they were when it was called, and it has sent no notification.
C13_FailedStepChangesNothing ==
    \A t \in Threads :
        StepFailed(t) =>
            /\ loc[t].err = "StoreError"
            /\ b.bestChain = loc[t].failed.bestChain
            /\ b.stateSnapshot = loc[t].failed.stateSnapshot
            /\ b.mainchainBlockCache = loc[t].failed.mainchainBlockCache
            /\ Len(loc[t].log) = loc[t].failed.sent

\* the second step of a reorganization failed, after a disconnectBlock that
\* moved the tip and sent its notification
C13_Witness ==
    \E t \in Threads :
        /\ StepFailed(t)
        /\ loc[t].i > 0
        /\ loc[t].failed.bestChain # loc[t].pre.b.bestChain

\* every notification sent so far by the calls in progress
Sent == UNION {SeqToSet(loc[t].log) : t \in Threads}

StakeNtfns == {NTSpentAndMissedTickets, NTNewTickets}

\* C14: every notification (BlockConnected, BlockDisconnected,
\* Reorganization, ChainReorgStarted, ChainReorgDone, SpentAndMissedTickets,
\* NewTickets) is sent while chainLock is released, so that a subscriber that
\* calls BestPrevHash or TipGeneration from its callback cannot deadlock.
C14_AllNotificationsUnlocked ==
    \A n \in Sent : ~n.locked

\* C14, amended: the five chain notifications are sent with chainLock
\* released; the two stake notifications of connectBlock are sent after
\* chainLock was taken again, with the lock held.
C14_OnlyStakeNotificationsLocked ==
    \A n \in Sent : n.locked <=> n.kind \in StakeNtfns

\* a connectBlock at or above StakeEnabledHeight sent BlockConnected with
\* chainLock released and then NewTickets with chainLock held, in a
\* reorganization that sent the other notifications too
C14_Witness ==
    \E t \in Threads :
        /\ \E n \in SeqToSet(loc[t].log) :
                n.kind = NTNewTickets /\ n.locked
        /\ \E n \in SeqToSet(loc[t].log) :
                n.kind = NTBlockConnected /\ ~n.locked
        /\ \E n \in SeqToSet(loc[t].log) :
                n.kind = NTBlockDisconnected /\ ~n.locked
        /\ \E n \in SeqToSet(loc[t].log) :
                n.kind = NTChainReorgDone /\ ~n.locked

\* the precondition of forceHeadReorganization that fails first for thread
\* t's call, taking the three rule errors in the order wrong chain, missing
\* child, known invalid
FirstFailedOfThree(t) ==
    LET l == loc[t]
        nd == l.pre.b.nodes
        tip == PreTip(l)
    IN  IF l.former # tip THEN "ErrForceReorgWrongChain"
        ELSE IF l.target \notin DOMAIN nd
                \/ nd[l.target].parent # nd[tip].parent
        THEN "ErrForceReorgMissingChild"
        ELSE IF KnownInvalid(l.pre.b.status[l.target])
        THEN "ErrKnownInvalidBlock"
        ELSE "nil"

\* the same with the comparison of the two hashes in front
FirstFailed(t) ==
    IF loc[t].former = loc[t].target THEN "SameBlock"
    ELSE FirstFailedOfThree(t)

ForceReturned(t) == pc[t] = "ret" /\ loc[t].op = "force"

\* the call of thread t has changed nothing and has sent nothing
NothingDone(t) ==
    /\ b = loc[t].pre.b
    /\ db = loc[t].pre.db
    /\ loc[t].wr = {}
    /\ loc[t].log = <<>>

\* C15: ForceHeadReorganization(formerBest, newBest) fails with
\* ErrForceReorgWrongChain when formerBest is not the tip, with
\* ErrForceReorgMissingChild when newBest is not in the index or its parent
\* is not the tip's parent, and with ErrKnownInvalidBlock when the target is
\* known invalid, checked in that order; in each case the tip, the view, the
\* snapshot, the statuses and the store are unchanged and nothing is notified.
C15_ThreeErrorsInOrder ==
    \A t \in Threads :
        ForceReturned(t) /\ FirstFailedOfThree(t) # "nil" =>
            /\ loc[t].err = FirstFailedOfThree(t)
            /\ NothingDone(t)

\* C15, amended: when formerBest and newBest are the same hash the call
\* fails with a plain error before any other check; otherwise it fails with
\* the three errors in the order given; in all four cases nothing is
\* changed and nothing is notified, and none of the four errors is returned
\* by a call that passed the checks.
C15_SameBlockThenThreeErrors ==
    \A t \in Threads :
        ForceReturned(t) =>
            /\ FirstFailed(t) # "nil" =>
                    loc[t].err = FirstFailed(t) /\ NothingDone(t)
            /\ FirstFailed(t) = "nil" =>
                    loc[t].err \notin {"SameBlock", "ErrForceReorgWrongChain",
                                       "ErrForceReorgMissingChild",
                                       "ErrKnownInvalidBlock"}

\* a call with a former best block that is not the tip and a target that is
\* not in the index was rejected, in a chain that has a known invalid block
C15_Witness ==
    \E t \in Threads :
        /\ ForceReturned(t)
        /\ loc[t].former # PreTip(loc[t])
        /\ loc[t].former # loc[t].target
        /\ loc[t].target \notin DOMAIN b.nodes
        /\ loc[t].err = "ErrForceReorgWrongChain"
        /\ \E n \in DOMAIN b.nodes : KnownInvalid(b.status[n])

\* C16: a ForceHeadReorganization(former, target) that passes its
\* preconditions and its validation runs the reorganization with detach =
\* <<former>> and attach = <<target>>: one disconnectBlock, of the former
\* tip, then one connectBlock, of the target, and no other; afterwards the
\* tip is the target and the main chain up to the common parent is as it
\* was. No such call trips the tip assertions of reorganizeChain.
C16_ForcedReorgSwapsTip ==
    \A t \in Threads :
        loc[t].op = "force" =>
            /\ pc[t] # "panic"
            /\ ForceReturned(t) /\ loc[t].err = "nil" =>
                LET l == loc[t]
                    old == l.pre.b.bestChain
                    parent == b.nodes[l.former].parent
                IN  /\ l.detach = <<l.former>>
                    /\ l.attach = <<l.target>>
                    /\ l.i = 1 /\ l.j = 1
                    /\ LogOf(l.log, {NTBlockDisconnected, NTBlockConnected})
                         = <<Ntfn(NTBlockDisconnected, l.former, parent),
                             Ntfn(NTBlockConnected, l.target, parent)>>
                    /\ TipNode = l.target
                    /\ b.bestChain =
                         Append(SubSeq(old, 1, Len(old) - 1), l.target)
                    /\ Tip(SubSeq(old, 1, Len(old) - 1)) = parent

\* a forced reorganization from B2 to its sibling B3 has returned nil, with
\* a common parent that is not the genesis block
C16_Witness ==
    \E t \in Threads :
        /\ ForceReturned(t)
        /\ loc[t].err = "nil"
        /\ PreTip(loc[t]) = loc[t].former
        /\ TipNode = loc[t].target
        /\ Len(b.bestChain) >= 3

C18_PoolWithinLimit ==
    \A t \in Threads :
        loc[t].op = "addOrphanBlock" =>
            Cardinality(DOMAIN b.orphans) <= maxOrphanBlocks

\* the last call of thread t was addOrphanBlock
AddReturned(t) == loc[t].op = "addOrphanBlock"

\* the orphans that were in the pool at the call and are not in it now
Evicted(t) == DOMAIN loc[t].pre.b.orphans \ DOMAIN b.orphans

\* C19: when addOrphanBlock is called, with a block that is not in the pool,
\* while the pool holds maxOrphanBlocks orphans none of which has expired,
\* exactly one orphan is evicted, and it is the one with the earliest
\* expiration among the orphans in the pool at the call, whatever adds and
\* removes came before.
C19_EvictsTheEarliest ==
    \A t \in Threads :
        LET pre == loc[t].pre
        IN  (/\ AddReturned(t)
             /\ loc[t].node \notin DOMAIN pre.b.orphans
             /\ Cardinality(DOMAIN pre.b.orphans) = maxOrphanBlocks
             /\ Expired(pre.b, pre.now) = {}) =>
                /\ Cardinality(Evicted(t)) = 1
                /\ \A h \in Evicted(t) :
                      \A g \in DOMAIN pre.b.orphans :
                          pre.b.orphans[h].expiration
                              <= pre.b.orphans[g].expiration

\* C20: addOrphanBlock of a block whose hash is in the pool, not expired, is
\* a no-op: b.orphans, the stored expiration of that orphan included, and
\* b.prevOrphans are after the call what they were before it.
C20_DuplicateAddIsNoOp ==
    \A t \in Threads :
        LET pre == loc[t].pre
        IN  (/\ AddReturned(t)
             /\ loc[t].node \in DOMAIN pre.b.orphans
             /\ loc[t].node \notin Expired(pre.b, pre.now)) =>
                /\ b.orphans[loc[t].node] = pre.b.orphans[loc[t].node]
                /\ b.orphans = pre.b.orphans
                /\ b.prevOrphans = pre.b.prevOrphans

\* the last call of thread t was a LocateBlocks with the locator of the
\* block that was, and still is, the tip
TipLocatorSent(t) ==
    /\ loc[t].op = "LocateBlocks"
    /\ loc[t].q.locator = BlockLocator(b.nodes, b.bestChain, NoNode)
    /\ loc[t].q.tip = TipNode

\* and the stop hash was the hash of the tip
TipLocatorResolved(t) ==
    /\ TipLocatorSent(t)
    /\ loc[t].q.hashStop = TipNode

\* C21 as stated: a block locator built for the current tip, passed back as
\* the locator argument of locateInventory together with hashStop = tip.hash,
\* resolves to the tip node with total = 1.
C21_TipLocatorResolvesToTip ==
    \A t \in Threads :
        TipLocatorResolved(t) =>
            loc[t].q.found = [node |-> TipNode, total |-> 1]

\* C21, amended: such a locator resolves to no node with total = 0,
\* whatever the stop hash, for its first hash is the tip and the view has no
\* block after the tip; it is the
\* empty locator that resolves, with hashStop = tip.hash, to the tip node
\* with total = 1.
C21_TipLocatorResolvesToNothing ==
    \A t \in Threads :
        /\ TipLocatorSent(t) =>
                loc[t].q.found = [node |-> NoNode, total |-> 0]
        /\ (/\ loc[t].op = "LocateBlocks"
            /\ loc[t].q.locator = <<>>
            /\ loc[t].q.tip = TipNode
            /\ loc[t].q.hashStop = TipNode) =>
                loc[t].q.found = [node |-> TipNode, total |-> 1]

\* the locator of a tip above height 12, which skips blocks on its way to
\* the genesis block, was sent back with the tip as stop hash
C21_Witness ==
    \E t \in Threads :
        /\ TipLocatorResolved(t)
        /\ b.nodes[TipNode].height > mainchainBlockCacheSize
        /\ Len(loc[t].q.locator) < Len(b.bestChain)
        /\ Head(loc[t].q.locator) = TipNode
        /\ loc[t].q.locator[Len(loc[t].q.locator)] = Genesis

\* the last call of thread t was a HeightRange that has returned, and the
\* view was the same at its two reads of it
HeightRangeUndisturbed(t) ==
    /\ loc[t].op = "HeightRange"
    /\ loc[t].q.returned
    /\ loc[t].q.viewAtLimit = loc[t].q.viewAtFetch

\* C22: HeightRange(s, e) returns an error when s < 0 or e < s, an empty
\* result when s = e or s is above the height of the tip, and otherwise
\* exactly the hashes of the main chain at the heights s, s + 1, ...,
\* min(e, tip.height + 1) - 1, in this order.
C22_HeightRangeResult ==
    \A t \in Threads :
        HeightRangeUndisturbed(t) =>
            LET q == loc[t].q
                view == q.viewAtLimit
                tipHeight == Len(view) - 1
                s == q.startHeight
                e == q.endHeight
                last == IF e < tipHeight + 1 THEN e ELSE tipHeight + 1
            IN  IF s < 0 \/ e < s
                THEN loc[t].err = "error"
                ELSE IF s = e \/ s > tipHeight
                THEN loc[t].err = "nil" /\ q.hashes = <<>>
                ELSE /\ loc[t].err = "nil"
                     /\ Len(q.hashes) = last - s
                     /\ \A h \in s..(last - 1) : q.hashes[h - s + 1] = view[h + 1]

\* a call with a start height above the genesis block and an end height that
\* was limited to the height of the tip plus one has returned two hashes
C22_Witness ==
    \E t \in Threads :
        /\ HeightRangeUndisturbed(t)
        /\ loc[t].q.startHeight >= 1
        /\ loc[t].q.endHeight > Len(loc[t].q.viewAtLimit)
        /\ Len(loc[t].q.hashes) >= 2

\* the hashes are a run of parent-linked blocks that were consecutive blocks
\* of the main chain when the call read the view
IsMainChainRun(q) ==
    /\ \A k \in 2..Len(q.hashes) :
            b.nodes[q.hashes[k]].parent = q.hashes[k - 1]
    /\ \A k \in 1..Len(q.hashes) :
            Contains(b.nodes, q.viewAtFetch, q.hashes[k])

\* C23: HeightRange is safe for concurrent access: run beside the tip
\* transitions of another thread, it never dereferences a missing (nil) node
\* of the chain view, and every result it returns is a contiguous
\* parent-linked run of hashes that were consecutive main-chain blocks.
C23_HeightRangeSafeBesideTipChanges ==
    \A t \in Threads :
        loc[t].op = "HeightRange" =>
            /\ loc[t].err # "nilDereference"
            /\ (loc[t].q.returned /\ loc[t].err = "nil") =>
                    IsMainChainRun(loc[t].q)

\* C24: TipGeneration returns exactly the hashes of the blocks that stem
\* from the parent of the current tip: the tip and the index entries whose
\* parent is the tip's parent, and no entry with another parent.
C24_TipGenerationIsSiblings ==
    \A t \in Threads :
        loc[t].op = "TipGeneration" =>
            loc[t].q.hashes =
                {n \in DOMAIN b.nodes :
                    b.nodes[n].parent = b.nodes[loc[t].q.tip].parent}

\* the call of thread t is a connectBestChain of a block on the tip, the
\* block not being marked Valid when the call started
ExtendCall(t) ==
    /\ loc[t].op = "process"
    /\ b.nodes[loc[t].node].parent = PreTip(loc[t])
    /\ statusValid \notin loc[t].pre.b.status[loc[t].node]

\* the block of the call is marked Valid or is in the view of the best chain
MarkedOrConnected(t) ==
    \/ statusValid \in b.status[loc[t].node]
    \/ loc[t].node \in SeqToSet(b.bestChain)

\* C25 as stated: in the extend case a node that is not already Valid is
\* marked Valid and passed to connectBlock only after checkConnectBlock ran
\* and succeeded on it, whatever behaviour flags are given.
C25_ValidOnlyAfterCheck ==
    \A t \in Threads :
        (ExtendCall(t) /\ MarkedOrConnected(t)) =>
            /\ ~loc[t].fastAdd
            /\ b.nodes[loc[t].node].verdict = "ok"

\* C25, amended: in the extend case checkConnectBlock is skipped when the
\* node is already Valid or BFFastAdd is given. Without BFFastAdd a node that
\* is not already Valid is marked Valid and connected only after
\* checkConnectBlock succeeded on it, and the call fails when it did not;
\* with BFFastAdd the node is marked Valid and connected unchecked, and the
\* call returns no rule error.
C25_ValidAfterCheckOrFastAdd ==
    \A t \in Threads :
        ExtendCall(t) =>
            LET l == loc[t]
                verdict == b.nodes[l.node].verdict
            IN  /\ MarkedOrConnected(t) => (l.fastAdd \/ verdict = "ok")
                /\ (~l.fastAdd /\ verdict = "rule" /\ pc[t] = "ret") =>
                        l.err \in {"RuleError", "StoreError"}
                /\ l.fastAdd =>
                        /\ l.err # "RuleError"
                        /\ statusValidateFailed \notin b.status[l.node]
                        /\ (pc[t] = "ret" /\ l.err = "nil") =>
                                /\ TipNode = l.node
                                /\ statusValid \in b.status[l.node]

\* a block that the validator would reject was processed with BFFastAdd: it
\* is the tip, marked Valid
C25_Witness ==
    \E t \in Threads :
        /\ ExtendCall(t)
        /\ pc[t] = "ret"
        /\ loc[t].fastAdd
        /\ loc[t].err = "nil"
        /\ b.nodes[loc[t].node].verdict = "rule"
        /\ TipNode = loc[t].node
        /\ statusValid \in b.status[loc[t].node]

\* the extend case of thread t's call has returned the rule error of
\* checkConnectBlock
ExtendRejected(t) ==
    /\ ExtendCall(t)
    /\ pc[t] = "ret"
    /\ loc[t].err = "RuleError"

\* C26: in the extend case, when checkConnectBlock returns a RuleError, the
\* node is marked ValidateFailed, a best-effort flush of the block index is
\* attempted (it writes every modified entry, or it is the store that
\* fails), the error is returned, and the tip, the chain view, the BestState
\* snapshot and the durable chain state are unchanged, with no notification
\* sent.
C26_ExtendRuleErrorLeavesChain ==
    /\ [](\A t \in Threads :
            ExtendRejected(t) =>
                /\ statusValidateFailed \in b.status[loc[t].node]
                /\ statusValid \notin b.status[loc[t].node]
                /\ ChainStateAsBefore(loc[t])
                /\ b.bestChain = loc[t].pre.b.bestChain
                /\ b.mainchainBlockCache = loc[t].pre.b.mainchainBlockCache
                /\ db.stake = loc[t].pre.db.stake
                /\ loc[t].log = <<>>
                /\ loc[t].wr \subseteq {"index"})
    /\ [][\A t \in Threads :
            (pc[t] = "idle" /\ ExtendRejected(t)') =>
                \/ /\ b'.modified = {}
                   /\ db'.index[loc'[t].node] = b'.status[loc'[t].node]
                \/ /\ fails' < fails
                   /\ db'.index = loc'[t].pre.db.index]_vars

\* a rejected block on the tip whose ValidateFailed status is in the store
C26_Witness ==
    \E t \in Threads :
        /\ ExtendRejected(t)
        /\ Len(b.bestChain) >= 2
        /\ statusValidateFailed \in db.index[loc[t].node]

\* the statuses of the nodes of ns are those of the start of l's call with
\* the flags fl added
StatusGained(l, ns, fl) ==
    \A n \in ns : b.status[n] = l.pre.b.status[n] \cup fl

\* C27: when the validation pass of reorganizeChain fails with a RuleError at
\* attach node k, node k is marked ValidateFailed, every attach node after k
\* is marked InvalidAncestor, the attach nodes before k are Valid, and no
\* node outside the attach list changes status.
C27_DryRunRuleErrorMarks ==
    \A t \in Threads :
        (pc[t] = "rg_ret" /\ loc[t].err = "RuleError") =>
            LET l == loc[t]
                al == Len(l.attach)
                at(lo, hi) == {l.attach[j] : j \in lo..hi}
            IN  \E k \in 1..al :
                    /\ statusValidateFailed \notin l.pre.b.status[l.attach[k]]
                    /\ b.nodes[l.attach[k]].verdict = "rule"
                    /\ StatusGained(l, {l.attach[k]}, {statusValidateFailed})
                    /\ StatusGained(l, at(k + 1, al), {statusInvalidAncestor})
                    /\ StatusGained(l, at(1, k - 1), {statusValid})
                    /\ StatusGained(l, DOMAIN b.nodes \ at(1, al), {})

\* the validation pass accepted the first attach node, which was not Valid
\* before, and rejected the second
C27_Witness ==
    \E t \in Threads :
        /\ pc[t] = "rg_ret"
        /\ loc[t].err = "RuleError"
        /\ Len(loc[t].attach) = 2
        /\ statusValid \notin loc[t].pre.b.status[loc[t].attach[1]]
        /\ statusValid \in b.status[loc[t].attach[1]]
        /\ b.status[loc[t].attach[2]] =
               {statusDataStored, statusValidateFailed}

\* the branch of n in the chain bc: n and its ancestors that are not in the
\* view of the best chain, n first
RECURSIVE Branch(_, _)
Branch(bc, n) ==
    IF n = NoNode \/ n \in SeqToSet(bc.bestChain) THEN <<>>
    ELSE <<n>> \o Branch(bc, bc.nodes[n].parent)

\* the deepest ancestor of n, n included, that is in the view of the best
\* chain of bc
RECURSIVE ForkPoint(_, _)
ForkPoint(bc, n) ==
    IF n = NoNode \/ n \in SeqToSet(bc.bestChain) THEN n
    ELSE ForkPoint(bc, bc.nodes[n].parent)

\* the nodes of the branch of l's node that were known invalid when the call
\* started, as positions in the branch
InvalidOnBranch(l) ==
    {k \in 1..Len(Branch(l.pre.b, l.node)) :
        KnownInvalid(l.pre.b.status[Branch(l.pre.b, l.node)[k]])}

\* C28: for a node on a side chain whose branch has no known invalid node,
\* getReorganizeNodes returns as detach list the main chain from the tip
\* down to the child of the fork point, the tip first, and as attach list
\* the branch from the child of the fork point up to the node, the node
\* last; the chain view, the index and the store are unchanged.
C28_ReorganizeNodesOfCleanBranch ==
    \A t \in Threads :
        (/\ loc[t].op = "getReorganizeNodes"
         /\ Branch(loc[t].pre.b, loc[t].node) # <<>>
         /\ InvalidOnBranch(loc[t]) = {}) =>
            LET l == loc[t]
                chain == l.pre.b.bestChain
                fork == ForkPoint(l.pre.b, l.node)
            IN  /\ l.attach = Reverse(Branch(l.pre.b, l.node))
                /\ l.detach = Reverse(SubSeq(chain,
                                             l.pre.b.nodes[fork].height + 2,
                                             Len(chain)))
                /\ b = l.pre.b
                /\ db = l.pre.db

\* two blocks to detach, the tip first, and two to attach, the node last
C28_Witness ==
    \E t \in Threads :
        /\ loc[t].op = "getReorganizeNodes"
        /\ Len(loc[t].detach) = 2
        /\ Len(loc[t].attach) = 2
        /\ loc[t].detach[1] = TipNode
        /\ b.nodes[loc[t].detach[2]].parent = ForkPoint(b, loc[t].node)
        /\ b.nodes[loc[t].attach[1]].parent = ForkPoint(b, loc[t].node)
        /\ loc[t].attach[2] = loc[t].node

\* C29: getReorganizeNodes returns two empty lists when the node is in the
\* main chain, the tip or an ancestor of the tip.
C29_MainChainNodeGivesEmptyLists ==
    \A t \in Threads :
        (/\ loc[t].op = "getReorganizeNodes"
         /\ loc[t].node \in SeqToSet(loc[t].pre.b.bestChain)) =>
            /\ loc[t].detach = <<>>
            /\ loc[t].attach = <<>>

\* getReorganizeNodes has returned to thread t: called alone, or by a
\* connectBestChain whose reorganizeChain has returned
GotReorganizeNodes(t) ==
    \/ loc[t].op = "getReorganizeNodes"
    \/ loc[t].op = "process" /\ pc[t] = "rg_ret"

\* C30: when the node given to getReorganizeNodes or an ancestor of it above
\* the fork point is known invalid, both lists are empty, the tip, the view
\* and the durable chain state are unchanged, and every node of the branch
\* below a known invalid one, the given node included, is marked
\* InvalidAncestor.
C30_InvalidBranchGivesEmptyLists ==
    \A t \in Threads :
        (GotReorganizeNodes(t) /\ InvalidOnBranch(loc[t]) # {}) =>
            LET l == loc[t]
                branch == Branch(l.pre.b, l.node)
            IN  /\ l.detach = <<>>
                /\ l.attach = <<>>
                /\ b.bestChain = l.pre.b.bestChain
                /\ ChainStateAsBefore(l)
                /\ \A k \in 1..Len(branch) :
                       (\E j \in InvalidOnBranch(l) : j > k) =>
                           statusInvalidAncestor \in b.status[branch[k]]

\* the walk met a known invalid node two blocks above the given node and
\* marked the two blocks it had collected, neither of which was marked
C30_Witness ==
    \E t \in Threads :
        /\ GotReorganizeNodes(t)
        /\ InvalidOnBranch(loc[t]) = {3}
        /\ \A k \in 1..2 :
               LET n == Branch(loc[t].pre.b, loc[t].node)[k]
               IN  /\ statusInvalidAncestor \notin loc[t].pre.b.status[n]
                   /\ statusInvalidAncestor \in b.status[n]
        /\ loc[t].detach = <<>>
        /\ loc[t].attach = <<>>

\* the last call of thread t was a forceHeadReorganization that got as far as
\* its checks of the target: the former best block was the tip, the target
\* its sibling, not known invalid and not known valid
ForceChecked(t) ==
    LET l == loc[t]
        nd == l.pre.b.nodes
    IN  /\ l.op = "force"
        /\ l.former # l.target
        /\ l.former = PreTip(l)
        /\ l.target \in DOMAIN nd
        /\ nd[l.target].parent = nd[l.former].parent
        /\ ~KnownInvalid(l.pre.b.status[l.target])
        /\ ~KnownValid(l.pre.b.status[l.target])

\* C31: when forceHeadReorganization checks a target that is not known
\* valid, the target is marked ValidateFailed whenever one of the three
\* checks (sanity, context, connect) reports a rule violation, and marked
\* Valid when the three succeed.
C31_ForceMarksTarget ==
    \A t \in Threads :
        ForceChecked(t) =>
            LET l == loc[t]
            IN  /\ (pc[t] = "ret" /\ l.err = "RuleError") =>
                      statusValidateFailed \in b.status[l.target]
                /\ (b.nodes[l.target].verdict = "ok"
                        /\ l.err # "StoreError") =>
                      statusValid \in b.status[l.target]

\* when the three checks ran, the target is marked ValidateFailed if
\* checkConnectBlock found the violation and Valid if none did
C31_ConnectCheckMarksTarget ==
    \A t \in Threads :
        (ForceChecked(t) /\ pc[t] = "ret") =>
            LET l == loc[t]
                v == b.nodes[l.target].verdict
            IN  /\ (v = "rule" /\ l.err = "RuleError") =>
                      statusValidateFailed \in b.status[l.target]
                /\ (v \in {"sanity", "context"} /\ l.err = "RuleError") =>
                      b.status[l.target] = l.pre.b.status[l.target]
                /\ (v = "ok" /\ l.err # "StoreError") =>
                      statusValid \in b.status[l.target]

\* the last call of thread t was a connectBestChain that has returned
ProcessReturned(t) == loc[t].op = "process" /\ pc[t] = "ret"

\* C32: connectBestChain returns a fork length of 0 with a nil error only if
\* the block ended up as the tip of the main chain; a side chain block with
\* more work than the tip for which getReorganizeNodes returns two empty
\* lists does not yield (0, nil).
C32_ZeroForkLenMeansTip ==
    \A t \in Threads :
        (ProcessReturned(t) /\ loc[t].err = "nil" /\ loc[t].forkLen = 0) =>
            TipNode = loc[t].node

\* a connectBlock of thread t has just returned the error of its block-index
\* flush or of its store transaction
ConnectFailedEarly(t) ==
    /\ StepFailed(t)
    /\ loc[t].inReorg => loc[t].i = Len(loc[t].detach)

\* a connectBlock of thread t has just returned the error of the
\* calcNextRequiredStakeDifficulty that follows the BlockConnected
\* notification
ConnectFailedLate(t) ==
    LET l == loc[t]
    IN  /\ \/ pc[t] = "rg_done_ntfn"
           \/ pc[t] = "ret" /\ ~l.inReorg /\ l.op = "process"
        /\ l.err # "nil"
        /\ l.failed = <<>>
        /\ l.cur # NoNode
        /\ b.nodes[l.cur].height >= StakeEnabledHeight
        /\ Len(l.log) > 0
        /\ l.log[Len(l.log)].kind = NTBlockConnected
        /\ l.log[Len(l.log)].a = l.cur

\* the block that connectBlock was called with
FailedBlock(t) ==
    LET l == loc[t]
    IN  IF l.failed = <<>> THEN l.cur
        ELSE IF l.inReorg THEN l.attach[l.j + 1]
        ELSE l.node

\* C37: whenever connectBlock returns a non-nil error the block was not
\* connected: the tip of the best chain and the BestState snapshot are those
\* of before the call and the durable best state names the previous tip.
C37_ConnectErrorLeavesTip ==
    \A t \in Threads :
        (ConnectFailedEarly(t) \/ ConnectFailedLate(t)) =>
            LET prev == b.nodes[FailedBlock(t)].parent
            IN  /\ TipNode = prev
                /\ b.stateSnapshot.Hash = prev
                /\ db.best.state.Hash = prev

\* the part of C37 that holds: an error of the block-index flush or of the
\* store transaction of connectBlock leaves the tip, the snapshot and the
\* durable best state on the parent of the block
C37_EarlyErrorLeavesTip ==
    \A t \in Threads :
        ConnectFailedEarly(t) =>
            LET prev == b.nodes[FailedBlock(t)].parent
            IN  /\ TipNode = prev
                /\ b.stateSnapshot.Hash = prev
                /\ db.best.state.Hash = prev

\* the store transaction of a connectBlock or a disconnectBlock of thread t
\* has succeeded, and the call of the thread is not over
TipMoved(t) == loc[t].cur # NoNode

\* C38: after every successful connectBlock or disconnectBlock the cumulative
\* work stored with the durable best state record is the workSum of the node
\* that is the new tip.
C38_StoredWorkIsTipWork ==
    \A t \in Threads :
        TipMoved(t) => db.best.workSum = b.nodes[TipNode].workSum

\* the part of C38 that holds: after a connectBlock the stored work is the
\* work of the new tip, and the stored state names the tip after either
C38_StoredWorkAfterConnect ==
    \A t \in Threads :
        TipMoved(t) =>
            /\ db.best.state.Hash = TipNode
            /\ loc[t].cur = TipNode =>
                  db.best.workSum = b.nodes[TipNode].workSum

\* the places of the list bucket that hold the record rec
PlacesOf(bucket, rec) == {k \in 1..Len(bucket) : bucket[k] = rec}

\* C40: after any sequence of addOrphanBlock and removeOrphanBlock calls the
\* two orphan indices agree: every record of b.orphans is exactly once in
\* b.prevOrphans, under the previous-block hash of its block; every record of
\* a list of b.prevOrphans is the record b.orphans holds for its hash; and no
\* list of b.prevOrphans is empty.
C40_OrphanIndicesAgree ==
    /\ \A h \in DOMAIN b.orphans :
          /\ PrevBlock(h) \in DOMAIN b.prevOrphans
          /\ Cardinality(PlacesOf(b.prevOrphans[PrevBlock(h)],
                                  b.orphans[h])) = 1
    /\ \A p \in DOMAIN b.prevOrphans :
          /\ Len(b.prevOrphans[p]) > 0
          /\ \A k \in 1..Len(b.prevOrphans[p]) :
                LET rec == b.prevOrphans[p][k]
                IN  /\ PrevBlock(rec.hash) = p
                    /\ rec.hash \in DOMAIN b.orphans
                    /\ b.orphans[rec.hash] = rec

\* the last call of thread t was removeOrphanBlock, of an orphan of the pool
RemoveReturned(t) == loc[t].op = "removeOrphanBlock"

\* the records of the list that are of other blocks than hash, in order
OthersIn(list, hash) ==
    LET Other(rec) == rec.hash # hash
    IN  SelectSeq(list, Other)

\* C35: removeOrphanBlock(o) removes o's hash from b.orphans and every record
\* with that hash from the list b.prevOrphans[o.prev], deletes that list
\* when it becomes empty, and leaves every other orphan record and every
\* other list as it was.
C35_RemoveOrphanFrame ==
    \A t \in Threads :
        RemoveReturned(t) =>
            LET pre == loc[t].pre.b
                hash == loc[t].node
                prev == PrevBlock(hash)
                rest == OthersIn(pre.prevOrphans[prev], hash)
            IN  /\ DOMAIN b.orphans = DOMAIN pre.orphans \ {hash}
                /\ \A h \in DOMAIN b.orphans : b.orphans[h] = pre.orphans[h]
                /\ DOMAIN b.prevOrphans \ {prev}
                       = DOMAIN pre.prevOrphans \ {prev}
                /\ \A p \in DOMAIN b.prevOrphans \ {prev} :
                       b.prevOrphans[p] = pre.prevOrphans[p]
                /\ IF rest = <<>> THEN prev \notin DOMAIN b.prevOrphans
                   ELSE /\ prev \in DOMAIN b.prevOrphans
                        /\ b.prevOrphans[prev] = rest

\* the list of the orphan's parent held two records of the orphan and the
\* record of another block, which alone is left
C35_Witness ==
    \E t \in Threads :
        /\ RemoveReturned(t)
        /\ LET pre == loc[t].pre.b
               prev == PrevBlock(loc[t].node)
           IN  /\ Len(pre.prevOrphans[prev]) = 3
               /\ prev \in DOMAIN b.prevOrphans
               /\ Len(b.prevOrphans[prev]) = 1
               /\ b.prevOrphans[prev][1].hash # loc[t].node

\* the ChainReorgStarted notifications among the first k that the call of
\* thread t sent, less the ChainReorgDone notifications among them
OpenReorgs(t, k) ==
    Cardinality({i \in 1..k : loc[t].log[i].kind = NTChainReorgStarted})
        - Cardinality({i \in 1..k : loc[t].log[i].kind = NTChainReorgDone})

\* a ChainReorgStarted of the call of thread t has no ChainReorgDone yet
ReorgOpen(t) == OpenReorgs(t, Len(loc[t].log)) = 1

\* C39: every ChainReorgStarted notification is followed by exactly one
\* ChainReorgDone notification before reorganizeChain returns, on every exit
\* path, a store error during a disconnect or a connect included, and no
\* ChainReorgDone is sent without a ChainReorgStarted before it.
C39_ReorgStartedThenDone ==
    /\ [](\A t \in Threads :
            /\ \A k \in 0..Len(loc[t].log) : OpenReorgs(t, k) \in {0, 1}
            /\ pc[t] \in {"rg_ret", "ret", "idle"} => ~ReorgOpen(t))
    /\ \A t \in Threads : ReorgOpen(t) ~> ~ReorgOpen(t)

\* reorganizeChain has returned the store error of a connectBlock that
\* followed a disconnectBlock, and both notifications were sent
C39_Witness ==
    \E t \in Threads :
        /\ pc[t] = "rg_ret"
        /\ loc[t].failed # <<>>
        /\ loc[t].i > 0
        /\ NTChainReorgStarted \in Kinds(loc[t])
        /\ NTChainReorgDone \in Kinds(loc[t])
        /\ loc[t].log[Len(loc[t].log)].kind = NTChainReorgDone

\* the last call of thread t was a LocateBlocks; the chain is as the call
\* found it
LocateReturned(t) == loc[t].op = "LocateBlocks"

\* no hash of the locator is of a block of the main chain
NoneKnown(locator) ==
    \A k \in 1..Len(locator) : locator[k] \notin SeqToSet(b.bestChain)

\* what locateInventory returns for no locator: the block of the stop hash
\* and 1, or nil and 0
EmptyLocatorResult(hashStop) ==
    IF hashStop \in DOMAIN b.nodes THEN [node |-> hashStop, total |-> 1]
    ELSE [node |-> NoNode, total |-> 0]

\* the block of the main chain after the genesis block, nil if there is none
AfterGenesis == IF Len(b.bestChain) >= 2 THEN b.bestChain[2] ELSE NoNode

\* C34 as stated: locateInventory returns (node of hashStop, 1) or (nil, 0)
\* for an empty locator and starts at the main chain block after the genesis
\* block for a locator with no hash on the main chain; in all cases the
\* total is at most maxEntries and start.height + total - 1 <= tip.height,
\* so locateBlocks never steps past the tip.
C34_TotalWithinLimits ==
    \A t \in Threads :
        LocateReturned(t) =>
            LET q == loc[t].q
                f == q.found
            IN  /\ q.locator = <<>> => f = EmptyLocatorResult(q.hashStop)
                /\ (q.locator # <<>> /\ NoneKnown(q.locator)
                        /\ AfterGenesis # NoNode) => f.node = AfterGenesis
                /\ f.total <= q.maxEntries
                /\ f.node # NoNode =>
                      b.nodes[f.node].height + f.total - 1
                          <= b.nodes[TipNode].height
                /\ loc[t].err = "nil"

\* C34, amended: the two special cases are as stated; for a locator that is
\* not empty the total is at most maxEntries and the nodes from the start
\* node on are in the main chain up to the tip at most; for an empty locator
\* the total is 1 whatever maxEntries is and the node may be off the main
\* chain; locateBlocks returns total hashes and dereferences no nil node.
C34_LocateInventoryResult ==
    \A t \in Threads :
        LocateReturned(t) =>
            LET q == loc[t].q
                f == q.found
                h == IF f.node = NoNode THEN 0 ELSE b.nodes[f.node].height
            IN  /\ q.locator = <<>> =>
                      /\ f = EmptyLocatorResult(q.hashStop)
                      /\ q.hashes = IF f.total = 1 THEN <<q.hashStop>>
                                    ELSE <<>>
                /\ (q.locator # <<>> /\ NoneKnown(q.locator)) =>
                      f.node = AfterGenesis
                /\ q.locator # <<>> =>
                      /\ f.total <= q.maxEntries
                      /\ f.node = NoNode => f.total = 0
                      /\ f.node # NoNode =>
                            /\ f.node = b.bestChain[h + 1]
                            /\ h + f.total - 1 <= b.nodes[TipNode].height
                            /\ q.hashes = SubSeq(b.bestChain, h + 1,
                                                 h + f.total)
                /\ Len(q.hashes) = f.total
                /\ loc[t].err = "nil"

\* no locator, no entry wanted, and a stop hash of a block above the tip
\* that is not in the main chain: that block is returned, with total 1
C34_Witness ==
    \E t \in Threads :
        /\ LocateReturned(t)
        /\ loc[t].q.locator = <<>>
        /\ loc[t].q.maxEntries = 0
        /\ loc[t].q.found.total = 1
        /\ b.nodes[loc[t].q.found.node].height > b.nodes[TipNode].height
        /\ loc[t].q.hashes = <<loc[t].q.hashStop>>

\* the hash reached from hash by following the previous-block hash k times
RECURSIVE Up(_, _)
Up(hash, k) == IF k = 0 THEN hash ELSE PrevBlock(Up(hash, k - 1))

\* the members of pool reached from hash by following previous-block hashes
\* through members of pool
ReachedIn(pool, hash) ==
    {Up(hash, k) : k \in {i \in 0..Cardinality(pool) :
                            \A j \in 0..i : Up(hash, j) \in pool}}

\* the members of pool reached from hash whose own parent is not in pool
RootsIn(pool, hash) ==
    {r \in ReachedIn(pool, hash) : PrevBlock(r) \notin pool}

\* the parent links of pool are acyclic: no member is reached from its own
\* parent
Acyclic(pool) == \A h \in pool : h \notin ReachedIn(pool, PrevBlock(h))

\* thread t is in the loop of GetOrphanRoot
InOrphanLoop(t) == pc[t] = "or_loop"

\* the last call of thread t was a GetOrphanRoot that has returned
RootReturned(t) ==
    /\ loc[t].op = "GetOrphanRoot"
    /\ pc[t] = "query"
    /\ loc[t].q.returned

\* C36: GetOrphanRoot(hash) returns hash itself when hash is not in the
\* orphan pool; otherwise it returns the hash of the one pool member that is
\* reached from hash by following previous-block hashes and whose own parent
\* is not in the pool; and it terminates for every pool whose parent links
\* are acyclic.
C36_OrphanRoot ==
    /\ [](\A t \in Threads :
            /\ InOrphanLoop(t) => loc[t].q.pool = DOMAIN b.orphans
            /\ RootReturned(t) =>
                  LET q == loc[t].q
                      hash == loc[t].node
                  IN  IF hash \notin q.pool THEN q.result = hash
                      ELSE /\ RootsIn(q.pool, hash) = {q.result}
                           /\ q.result \in q.pool)
    /\ \A t \in Threads :
          (InOrphanLoop(t) /\ Acyclic(loc[t].q.pool)) ~> RootReturned(t)

\* the root of an orphan that was found three blocks up, in a pool of four
C36_Witness ==
    \E t \in Threads :
        /\ RootReturned(t)
        /\ loc[t].node = 9
        /\ loc[t].q.pool = {9, -6, 1, -2}
        /\ loc[t].q.result = -2

\* a call of pruneStakeNodes has just ended in thread t
Pruned(t) == loc[t].op = "pruneStakeNodes"

\* the four stake fields of a node record are all nil
StakeCleared(node) ==
    /\ node.stakeNode = NoStake
    /\ node.newTickets = NoStake
    /\ node.ticketsVoted = NoStake
    /\ node.ticketsRevoked = NoStake

\* the four stake fields of a node record are all set
StakeKept(node) ==
    /\ node.stakeNode # NoStake
    /\ node.newTickets # NoStake
    /\ node.ticketsVoted # NoStake
    /\ node.ticketsRevoked # NoStake

\* node n is the tip of the chain bc or one of its ancestors
OnTipLine(bc, n) ==
    /\ bc.nodes[n].height + 1 <= Len(bc.bestChain)
    /\ bc.bestChain[bc.nodes[n].height + 1] = n

\* the height of the tip of the chain bc
TipHeight(bc) == bc.nodes[bc.bestChain[Len(bc.bestChain)]].height

\* C33: pruneStakeNodes with a tip at height H sets stakeNode, newTickets,
\* ticketsVoted and ticketsRevoked to nil on every ancestor of the tip at a
\* height h with H - 2880 < h <= H - 288 and changes nothing else of these
\* nodes; the tip, its 287 nearest ancestors, the ancestors with
\* h <= H - 2880 and the side chain nodes are as they were, and so is
\* everything when H <= 287.
C33_PruneStakeNodesBand ==
    \A t \in Threads :
        Pruned(t) =>
            LET old == loc[t].pre.b
                H == TipHeight(old)
            IN  /\ b = [old EXCEPT !.nodes = b.nodes]
                /\ db = loc[t].pre.db
                /\ DOMAIN b.nodes = DOMAIN old.nodes
                /\ \A n \in DOMAIN old.nodes :
                      IF /\ OnTipLine(old, n)
                         /\ H - 2880 < old.nodes[n].height
                         /\ old.nodes[n].height <= H - 288
                      THEN /\ StakeCleared(b.nodes[n])
                           /\ b.nodes[n].parent = old.nodes[n].parent
                           /\ b.nodes[n].height = old.nodes[n].height
                           /\ b.nodes[n].workSum = old.nodes[n].workSum
                           /\ b.nodes[n].verdict = old.nodes[n].verdict
                      ELSE b.nodes[n] = old.nodes[n]
                /\ H <= 287 => b = old

\* a call with the tip at height 2881 of a chain never pruned before cleared
\* the ancestors at heights 2 and 2593 and left alone those at heights 1 and
\* 2594, the tip, and the side chain node at height 2593
C33_Witness ==
    \E t \in Threads :
        /\ Pruned(t)
        /\ TipHeight(loc[t].pre.b) = 2881
        /\ \A n \in DOMAIN loc[t].pre.b.nodes :
              StakeKept(loc[t].pre.b.nodes[n])
        /\ StakeCleared(b.nodes[2]) /\ StakeCleared(b.nodes[2593])
        /\ StakeKept(b.nodes[1]) /\ StakeKept(b.nodes[2594])
        /\ StakeKept(b.nodes[2881])
        /\ \E s \in DOMAIN b.nodes :
              /\ ~OnTipLine(b, s)
              /\ b.nodes[s].height = 2593
              /\ StakeKept(b.nodes[s])

\* a call with the tip at height 288 cleared the genesis block and left
\* the block at height 1 alone
C33_LowWitness ==
    \E t \in Threads :
        /\ Pruned(t)
        /\ TipHeight(loc[t].pre.b) = 288
        /\ StakeKept(loc[t].pre.b.nodes[Genesis])
        /\ StakeCleared(b.nodes[Genesis])
        /\ StakeKept(b.nodes[1])
====
